---- MODULE Spec2Model ----
(***************************************************************************)
(* Model of the Discord <-> Roblox economy bridge.                         *)
(*                                                                         *)
(*  - packages/shared/src/txn.ts : ProcessedTxnBuffer and                  *)
(*    applyIdempotentTransaction (the TypeScript ring and applier)         *)
(*  - roblox/ServerScript.service.lua (src/unnamed/part_001): RingBuffer,  *)
(*    attachProfile / releaseProfile / applyCommand / onPlayerAdded        *)
(*  - packages/opencloud (src/unnamed/part_000): getDataStoreEntry,        *)
(*    postDataStoreEntry, updateEconomyProfile, withBackoff                *)
(*                                                                         *)
(* Transaction ids are modelled as positive integers (T1 = 1, T2 = 2 ...), *)
(* user ids, actors and reasons as strings, balances as integers.          *)
(***************************************************************************)
EXTENDS Integers, Sequences, FiniteSets, TLC

VARIABLES
    \* --- the TypeScript applier driven directly (txn.ts) ---
    buffer,        \* the ProcessedTxnBuffer object
    balance,       \* the balance its caller keeps (currentBalance of the next apply)
    result,        \* TransactionResult of the last applyIdempotentTransaction
    \* --- the game script's session of a resident user (part_001) ---
    session,       \* { profile = {Data = {balance, processed}}, ring = RingBuffer }
    luaResult,     \* inserted flag and record of the last applyCommand
    \* --- the Open Cloud data store and its client (part_000) ---
    store,         \* entryKey -> Null (no entry) or [data, version]
    storeResult,   \* ApplyEconomyTransactionResult of the last sequential call
    calls,         \* concurrent applyEconomyTransaction calls, one record per caller
    \* --- the fleet of game nodes (part_001 on every node) ---
    ActiveSessions,\* node -> userId -> Null or { profile, ring }
    profiles,      \* ProfileStore: key -> [data, owner] (owner: the node holding the lock)
    loadJobs,      \* node -> the task whose LoadProfileAsync call is the latest pending one
    threads,       \* task -> where each subscription callback / PlayerAdded handler stands
    players,       \* node -> "absent" | "present" | "leaving"
    published,     \* messages accepted by MessagingService:PublishAsync
    logged,        \* requests accepted by HttpService:PostAsync
    message,       \* the message on the discord-commands topic
    \* --- the bot (apps/bot) and the Open Cloud client (part_000) ---
    bot,           \* handleTransactionCommand: where it stands, its polls and its reply
    http,          \* one call of the client: its attempts, waits and outcome
    \* --- the audit API server (apps/api) and its database ---
    posts,         \* request slot -> the POST /log/transactions it carries and its response
    webhookDelivery, \* table WebhookDelivery: key -> payloadHash
    auditLog,      \* table AuditLog: txnId -> row
    checked,       \* a verifySignature call: its arguments and its outcome
    \* --- bookkeeping of the driver ---
    lastCmd,       \* the command handed to the appliers in the last step
    insertLog,     \* history: [txnId, delta] of every apply that reported processed = true
    ticks,         \* number of times the clock has advanced
    startEntry     \* the store entry found when the driver started (Null: none)

applyVars == <<buffer, balance, result, session, luaResult, storeResult, lastCmd,
               insertLog, ticks, startEntry>>
storeVars == <<store>>
callVars  == <<calls>>
nodeVars  == <<ActiveSessions, profiles, loadJobs, threads, players, published, logged,
               message>>
clientVars == <<bot, http>>
apiVars   == <<posts, webhookDelivery, auditLog, checked>>
vars == <<buffer, balance, result, session, luaResult, store, storeResult, calls,
          ActiveSessions, profiles, loadJobs, threads, players, published, logged,
          message, bot, http,
          posts, webhookDelivery, auditLog, checked,
          lastCmd, insertLog, ticks, startEntry>>

-----------------------------------------------------------------------------
(* Bounds of the model *)

MaxSize  == 2      \* largest ring capacity tried by the small-ring driver
MaxTxn   == 3      \* transaction ids 1..MaxTxn used by the small-ring driver
MaxOps   == 4      \* commands applied per behaviour of the small-ring driver
MaxExtra == 1      \* fresh txnIds applied beyond the default capacity (driver 2)
MaxReapply == 1    \* replays of evicted txnIds per behaviour (driver 2)
MaxCallers == 2  \* concurrent applyEconomyTransaction calls
MaxDeliver == 2  \* deliveries of the envelope to one node
MaxJoins == 1    \* times the player joins a node
MaxAuditTxn == 2 \* txnIds among the audit payloads
DigestBytes == 2 \* bytes of a digest (32 for SHA-256)
MaxSeed  == 66     \* length of the over-long processed list found in the store

(* Program constants *)

DefaultSize == 64  \* constructor(size = 64)
RING_SIZE   == 64  \* local RING_SIZE = 64

-----------------------------------------------------------------------------
(* Values *)

Null      == [null |-> TRUE]          \* null / undefined / nil object reference
NoReason  == "<undefined>"            \* reason?: absent
NoTime    == -1                       \* params.timestamp absent
NoDelta   == -999                     \* command.delta absent (nil)

TxnIds    == 1..MaxTxn
U1        == "u1"

WalletKey(userId) == "wallet:" \o userId

\* EconomyTransactionCommand (types.ts)
Command(t, u, d, a, s, r) ==
    [txnId |-> t, userId |-> u, delta |-> d, actor |-> a, source |-> s, reason |-> r]

(* The envelopes a front-end may send for one txnId: a credit by an admin
   without reason, and a debit by a moderator with a reason (so that a replay
   can differ from the first apply in delta, actor, source and reason). *)
Variants(t, u) ==
    { Command(t, u, 1, "admin#1", "discord", NoReason),
      Command(t, u, -2, "mod#2", "game", "gift") }

Commands == UNION { Variants(t, U1) : t \in TxnIds }

\* Date.now() / DateTime.now(): a clock that has advanced by n ms after n calls
Clock(n) == 1000 + n

\* params.timestamp as passed by the caller of applyIdempotentTransaction:
\* absent for the credit, an explicit value for the debit
TimestampOf(cmd) == IF cmd.delta > 0 THEN NoTime ELSE 500

MapSet(m, k, v) == (k :> v) @@ m
MapDelete(m, k) == [x \in (DOMAIN m) \ {k} |-> m[x]]
EmptyMap == [x \in {} |-> Null]

Reverse(s) == [i \in 1..Len(s) |-> s[Len(s) + 1 - i]]

Ids(s) == [i \in 1..Len(s) |-> s[i].txnId]

RECURSIVE SumDelta(_)
SumDelta(s) ==
    IF Len(s) = 0 THEN 0
    ELSE IF Len(s) = 1 THEN s[1].delta
    ELSE LET h == Len(s) \div 2
         IN  SumDelta(SubSeq(s, 1, h)) + SumDelta(SubSeq(s, h + 1, Len(s)))

Distinct(s) == \A i, j \in 1..Len(s) : i # j => s[i] # s[j]

-----------------------------------------------------------------------------
(* packages/shared/src/txn.ts : class ProcessedTxnBuffer *)

NewProcessedTxnBuffer(size) ==
    [size   |-> size,
     buffer |-> [i \in 0..(size - 1) |-> Null],
     cursor |-> 0,
     lookup |-> EmptyMap]

\* record() without the lookup short-circuit: every call inserts
record_noLookup(b, txn) ==
    LET displaced == b.buffer[b.cursor]
        lookup1   == IF displaced # Null
                     THEN MapDelete(b.lookup, displaced.txnId)
                     ELSE b.lookup
    IN  [inserted |-> TRUE,
         record   |-> txn,
         self     |-> [b EXCEPT !.buffer[b.cursor] = txn,
                                !.lookup = MapSet(lookup1, txn.txnId, txn),
                                !.cursor = (b.cursor + 1) % b.size]]

\* record() whose cursor wraps one slot early (the last slot is never used)
record_shortWrap(b, txn) ==
    IF txn.txnId \in DOMAIN b.lookup
    THEN [inserted |-> FALSE, record |-> b.lookup[txn.txnId], self |-> b]
    ELSE LET displaced == b.buffer[b.cursor]
             lookup1   == IF displaced # Null
                          THEN MapDelete(b.lookup, displaced.txnId)
                          ELSE b.lookup
         IN  [inserted |-> TRUE,
              record   |-> txn,
              self     |-> [b EXCEPT !.buffer[b.cursor] = txn,
                                     !.lookup = MapSet(lookup1, txn.txnId, txn),
                                     !.cursor = (b.cursor + 1) % (b.size - 1)]]

\* record() that forgets to advance the cursor: it always overwrites one slot
record_stuckCursor(b, txn) ==
    IF txn.txnId \in DOMAIN b.lookup
    THEN [inserted |-> FALSE, record |-> b.lookup[txn.txnId], self |-> b]
    ELSE LET displaced == b.buffer[b.cursor]
             lookup1   == IF displaced # Null
                          THEN MapDelete(b.lookup, displaced.txnId)
                          ELSE b.lookup
         IN  [inserted |-> TRUE,
              record   |-> txn,
              self     |-> [b EXCEPT !.buffer[b.cursor] = txn,
                                     !.lookup = MapSet(lookup1, txn.txnId, txn)]]

\* record(txn): returns {inserted, record}; "self" is the object after the call
record(b, txn) ==
    IF txn.txnId \in DOMAIN b.lookup
    THEN [inserted |-> FALSE, record |-> b.lookup[txn.txnId], self |-> b]
    ELSE LET displaced == b.buffer[b.cursor]
             lookup1   == IF displaced # Null
                          THEN MapDelete(b.lookup, displaced.txnId)
                          ELSE b.lookup
         IN  [inserted |-> TRUE,
              record   |-> txn,
              self     |-> [b EXCEPT !.buffer[b.cursor] = txn,
                                     !.lookup = MapSet(lookup1, txn.txnId, txn),
                                     !.cursor = (b.cursor + 1) % b.size]]

get(b, txnId) == IF txnId \in DOMAIN b.lookup THEN b.lookup[txnId] ELSE Null

\* lines 51-61: the occupied slots, walking back from the one before the cursor
listNewestFirst(b) ==
    LET slots == [k \in 1..b.size |->
                    b.buffer[(b.cursor - 1 - (k - 1) + b.size) % b.size]]
    IN  SelectSeq(slots, LAMBDA e : e # Null)

RecordOf(currentBalance, params, now) ==
    [txnId        |-> params.txnId,
     delta        |-> params.delta,
     balanceAfter |-> currentBalance + params.delta,
     actor        |-> params.actor,
     source       |-> params.source,
     reason       |-> params.reason,
     processedAt  |-> IF params.timestamp # NoTime THEN params.timestamp ELSE now]

\* the applier returning the candidate record instead of the persisted one
applyIdempotentTransaction_candidate(currentBalance, params, b, now) ==
    LET rec == RecordOf(currentBalance, params, now)
        r   == record(b, rec)
    IN  [balance   |-> IF r.inserted THEN rec.balanceAfter ELSE currentBalance,
         processed |-> r.inserted,
         record    |-> rec,
         buffer    |-> r.self]

\* the applier returning balanceAfter whether or not the record was inserted
applyIdempotentTransaction_balanceAfter(currentBalance, params, b, now) ==
    LET rec == RecordOf(currentBalance, params, now)
        r   == record(b, rec)
    IN  [balance   |-> rec.balanceAfter,
         processed |-> r.inserted,
         record    |-> r.record,
         buffer    |-> r.self]

(* packages/shared/src/txn.ts : applyIdempotentTransaction.
   params carries an optional timestamp; now is the value of Date.now(). *)
applyIdempotentTransaction(currentBalance, params, b, now) ==
    LET rec == RecordOf(currentBalance, params, now)
        r   == record(b, rec)
    IN  [balance   |-> IF r.inserted THEN rec.balanceAfter ELSE currentBalance,
         processed |-> r.inserted,
         record    |-> r.record,
         buffer    |-> r.self]

-----------------------------------------------------------------------------
(* roblox/ServerScript.service.lua : RingBuffer *)

\* push() that never removes the oldest item
RingBuffer_push_noEvict(r, rec) ==
    IF rec.txnId \in DOMAIN r.lookup
    THEN [inserted |-> FALSE, record |-> r.lookup[rec.txnId], self |-> r]
    ELSE [inserted |-> TRUE, record |-> rec,
          self |-> [r EXCEPT !.items  = Append(r.items, rec),
                             !.lookup = MapSet(r.lookup, rec.txnId, rec)]]

\* RingBuffer:push(record): returns inserted, record; "self" is the object after
RingBuffer_push(r, rec) ==
    IF rec.txnId \in DOMAIN r.lookup
    THEN [inserted |-> FALSE, record |-> r.lookup[rec.txnId], self |-> r]
    ELSE LET items1  == Append(r.items, rec)
             lookup1 == MapSet(r.lookup, rec.txnId, rec)
         IN  IF Len(items1) > r.size
             THEN [inserted |-> TRUE, record |-> rec,
                   self |-> [r EXCEPT !.items  = Tail(items1),
                                      !.lookup = MapDelete(lookup1, Head(items1).txnId)]]
             ELSE [inserted |-> TRUE, record |-> rec,
                   self |-> [r EXCEPT !.items = items1, !.lookup = lookup1]]

(* for _, record in ipairs(seed) do self:push(record) end.
   The loop over a list is evaluated as the loop over its first half
   followed by the loop over its second half (the size test always holds:
   it makes the first half be evaluated before the second is entered). *)
RECURSIVE PushAll(_, _)
PushAll(r, seed) ==
    IF Len(seed) = 0 THEN r
    ELSE IF Len(seed) = 1 THEN RingBuffer_push(r, seed[1]).self
    ELSE LET h     == Len(seed) \div 2
             first == PushAll(r, SubSeq(seed, 1, h))
         IN  IF first.size = r.size
             THEN PushAll(first, SubSeq(seed, h + 1, Len(seed)))
             ELSE first

RingBuffer_new(size, seed) ==
    PushAll([size |-> size, items |-> <<>>, lookup |-> EmptyMap], seed)

RingBuffer_list(r) == r.items

PROFILE_TEMPLATE == [balance |-> 0, processed |-> <<>>]

\* attachProfile that starts every session with an empty ring
attachProfile_emptyRing(data) ==
    [profile |-> [balance |-> data.balance, processed |-> data.processed],
     ring    |-> RingBuffer_new(RING_SIZE, <<>>)]

\* attachProfile: the session state built around a loaded profile's Data
attachProfile(data) ==
    [profile |-> [balance |-> data.balance, processed |-> data.processed],
     ring    |-> RingBuffer_new(RING_SIZE, data.processed)]

(* applyCommand, lines 332-350: the part that runs once the session state is
   known.  st = {profile = Data, ring}; returns the state after, the inserted
   flag and the record (the existing one on a duplicate). *)
applyCommand_apply(st, command, now) ==
    LET nextBalance == st.profile.balance + command.delta
        rec == [txnId        |-> command.txnId,
                delta        |-> command.delta,
                balanceAfter |-> nextBalance,
                actor        |-> command.actor,
                source       |-> command.source,
                processedAt  |-> now,
                reason       |-> command.reason]
        p   == RingBuffer_push(st.ring, rec)
    IN  IF ~p.inserted
        THEN [state |-> st, inserted |-> FALSE, record |-> p.record]
        ELSE [state |-> [profile |-> [balance   |-> nextBalance,
                                      processed |-> RingBuffer_list(p.self)],
                         ring    |-> p.self],
              inserted |-> TRUE, record |-> rec]

-----------------------------------------------------------------------------
(* packages/opencloud : the data store client *)

maxRetries == 4

\* getDataStoreEntry: a missing entry is {data: null} without a version
getDataStoreEntry(st, entryKey) ==
    IF st[entryKey] = Null THEN [data |-> Null, version |-> Null]
    ELSE [data |-> st[entryKey].data, version |-> [v |-> st[entryKey].version]]

\* lines 542-545: for (const record of profile.processed) buffer.record(record)
\* (evaluated half by half, like PushAll)
RECURSIVE RecordAll(_, _)
RecordAll(b, s) ==
    IF Len(s) = 0 THEN b
    ELSE IF Len(s) = 1 THEN record(b, s[1]).self
    ELSE LET h     == Len(s) \div 2
             first == RecordAll(b, SubSeq(s, 1, h))
         IN  IF first.size = b.size
             THEN RecordAll(first, SubSeq(s, h + 1, Len(s)))
             ELSE first

(* updateEconomyProfile, lines 536-566: what one loop iteration computes from
   the entry it read.  Returns the TransactionResult, the profile to return
   or write, and whether a write is to be issued. *)
updateEconomyProfile_compute(current, command, now) ==
    LET profile == IF current.data # Null THEN current.data
                   ELSE [balance |-> 0, processed |-> <<>>]
        buf == RecordAll(NewProcessedTxnBuffer(DefaultSize), profile.processed)
        res == applyIdempotentTransaction(profile.balance,
                  [txnId |-> command.txnId, delta |-> command.delta,
                   actor |-> command.actor, source |-> command.source,
                   reason |-> command.reason, timestamp |-> NoTime],
                  buf, now)
    IN  IF ~res.processed
        THEN [balance |-> res.balance, processed |-> FALSE, record |-> res.record,
              profile |-> profile, write |-> FALSE]
        ELSE [balance |-> res.balance, processed |-> TRUE, record |-> res.record,
              profile |-> [balance   |-> res.balance,
                           processed |-> Reverse(listNewestFirst(res.buffer))],
              write |-> TRUE]

(* postDataStoreEntry against the store: matchVersion is sent only when the
   read returned a version; the store rejects a version that is not current. *)
postDataStoreEntry(st, entryKey, data, version) ==
    LET cur == st[entryKey]
    IN  IF version # Null /\ (cur = Null \/ cur.version # version.v)
        THEN [ok |-> FALSE, store |-> st]
        ELSE [ok |-> TRUE,
              store |-> [st EXCEPT ![entryKey] =
                           [data |-> data,
                            version |-> IF cur = Null THEN 1 ELSE cur.version + 1]]]

(* One applyEconomyTransaction call that no other writer interleaves with:
   read, compute, conditional write (which then succeeds). *)
updateEconomyProfile_alone(st, userId, command, now) ==
    LET entryKey == WalletKey(userId)
        current  == getDataStoreEntry(st, entryKey)
        c        == updateEconomyProfile_compute(current, command, now)
        w        == postDataStoreEntry(st, entryKey, c.profile, current.version)
    IN  [store  |-> IF c.write THEN w.store ELSE st,
         result |-> [balance |-> c.balance, processed |-> c.processed,
                     record |-> c.record, profile |-> c.profile]]

-----------------------------------------------------------------------------
(* Driver 1: the three appliers fed the same commands, small rings.
   The TypeScript ring and the game script's ring are built with a capacity
   chosen at construction; the store client always rebuilds a ring of the
   default capacity. *)

\* no game node is running
NoNodes ==
    /\ ActiveSessions = <<>>
    /\ profiles = <<>>
    /\ loadJobs = <<>>
    /\ threads = <<>>
    /\ players = <<>>
    /\ published = {}
    /\ logged = {}
    /\ message = Null

\* the bot and the client are idle
NoClient ==
    /\ bot = Null
    /\ http = Null

\* the API server has received nothing
NoApi ==
    /\ posts = <<>>
    /\ webhookDelivery = <<>>
    /\ auditLog = <<>>
    /\ checked = Null

InitApply ==
    /\ NoNodes
    /\ NoClient
    /\ NoApi
    /\ \E size \in 1..MaxSize :
         /\ buffer  = NewProcessedTxnBuffer(size)
         /\ session = [profile |-> PROFILE_TEMPLATE,
                       ring    |-> RingBuffer_new(size, <<>>)]
    /\ balance = 0
    /\ result = Null
    /\ luaResult = Null
    /\ store = [k \in {WalletKey(U1)} |-> Null]
    /\ storeResult = Null
    /\ calls = <<>>
    /\ lastCmd = Null
    /\ insertLog = <<>>
    /\ ticks = 0
    /\ startEntry = Null

\* The same command is handed to applyIdempotentTransaction, to applyCommand
\* (user resident) and to applyEconomyTransaction.
Apply(cmd, now, ts) ==
    LET r == applyIdempotentTransaction(balance,
                [txnId |-> cmd.txnId, delta |-> cmd.delta, actor |-> cmd.actor,
                 source |-> cmd.source, reason |-> cmd.reason, timestamp |-> ts],
                buffer, now)
        l == applyCommand_apply(session, cmd, now)
        s == updateEconomyProfile_alone(store, cmd.userId, cmd, now)
    IN  /\ buffer' = r.buffer
        /\ balance' = r.balance
        /\ result' = [balance |-> r.balance, processed |-> r.processed, record |-> r.record]
        /\ session' = l.state
        /\ luaResult' = [inserted |-> l.inserted, record |-> l.record]
        /\ store' = s.store
        /\ storeResult' = s.result
        /\ lastCmd' = cmd
        /\ insertLog' = IF r.processed
                        THEN Append(insertLog, [txnId |-> cmd.txnId, delta |-> cmd.delta])
                        ELSE insertLog
        /\ UNCHANGED <<calls, startEntry>>
        /\ UNCHANGED nodeVars
        /\ UNCHANGED clientVars
        /\ UNCHANGED apiVars

\* the clock advances with every command
ApplyCommand ==
    /\ ticks < MaxOps
    /\ \E cmd \in Commands : Apply(cmd, Clock(ticks), TimestampOf(cmd))
    /\ ticks' = ticks + 1

NextApply == ApplyCommand

SpecApply == InitApply /\ [][NextApply]_vars

\* the records a ring holds, oldest first
Held(b) == Reverse(listNewestFirst(b))
InRing(b, t) == \E i \in 0..(b.size - 1) : b.buffer[i] # Null /\ b.buffer[i].txnId = t
InItems(r, t) == \E i \in 1..Len(r.items) : r.items[i].txnId = t
LastN(s, n) == SubSeq(s, Len(s) - n + 1, Len(s))
Min(a, b) == IF a < b THEN a ELSE b
StoredProfile(userId) ==
    IF store[WalletKey(userId)] = Null THEN Null ELSE store[WalletKey(userId)].data

-----------------------------------------------------------------------------
(* Properties of the ring and the applier (driver 1) *)

\* C1 (Idempotence): an apply whose txnId is still in the ring reports
\* processed = false and leaves the balance and the processed list as they
\* were; an apply whose txnId is not in the ring is the one that mutates.
\* Stated for applyIdempotentTransaction and for applyCommand.
Idempotence ==
    [][ lastCmd' # Null =>
          /\ InRing(buffer, lastCmd'.txnId) =>
                /\ result'.processed = FALSE
                /\ result'.balance = balance
                /\ balance' = balance
                /\ Held(buffer') = Held(buffer)
          /\ ~InRing(buffer, lastCmd'.txnId) =>
                /\ result'.processed = TRUE
                /\ balance' = balance + lastCmd'.delta
          /\ InItems(session.ring, lastCmd'.txnId) =>
                /\ luaResult'.inserted = FALSE
                /\ session'.profile = session.profile
                /\ session'.ring = session.ring
          /\ ~InItems(session.ring, lastCmd'.txnId) =>
                /\ luaResult'.inserted = TRUE
                /\ session'.profile.balance = session.profile.balance + lastCmd'.delta
      ]_vars

\* a replay has just been answered by both appliers
IdempotenceWitness ==
    /\ result # Null /\ result.processed = FALSE
    /\ luaResult # Null /\ luaResult.inserted = FALSE
    /\ InRing(buffer, lastCmd.txnId)
    /\ balance # 0

\* C7 (Ring FIFO): after any sequence of record() / push() calls the ring
\* holds exactly the latest min(n, capacity) inserted txnIds, oldest first,
\* and an insertion into a full ring evicts exactly the oldest record held.
RingFIFOState ==
    /\ Ids(Held(buffer)) = LastN(Ids(insertLog), Min(Len(insertLog), buffer.size))
    /\ Ids(session.ring.items)
          = LastN(Ids(insertLog), Min(Len(insertLog), session.ring.size))

RingFIFOStep ==
    (/\ lastCmd' # Null
     /\ Len(Held(buffer)) = buffer.size
     /\ ~InRing(buffer, lastCmd'.txnId))
    => /\ Held(buffer') = Append(Tail(Held(buffer)), result'.record)
       /\ session'.ring.items = Append(Tail(session.ring.items), luaResult'.record)

RingFIFO == [](RingFIFOState) /\ [][RingFIFOStep]_vars

\* a full ring has evicted its oldest record and is full again
RingFIFOWitness ==
    /\ Len(insertLog) > buffer.size
    /\ Len(Held(buffer)) = buffer.size
    /\ buffer.size > 1
    /\ ~InRing(buffer, insertLog[1].txnId)

\* C8 (Distinctness): the txnIds held in the ring are pairwise distinct, and
\* so are those of every processed list persisted by updateEconomyProfile or
\* by applyCommand.
Distinctness ==
    /\ Distinct(Ids(Held(buffer)))
    /\ Cardinality(DOMAIN buffer.lookup) = Len(Held(buffer))
    /\ Distinct(Ids(session.ring.items))
    /\ Distinct(Ids(session.profile.processed))
    /\ StoredProfile(U1) # Null => Distinct(Ids(StoredProfile(U1).processed))

\* a replay was applied to a ring and to persisted lists of several records
DistinctnessWitness ==
    /\ result # Null /\ result.processed = FALSE
    /\ Len(Held(buffer)) >= 2
    /\ Len(session.profile.processed) >= 2
    /\ StoredProfile(U1) # Null /\ Len(StoredProfile(U1).processed) >= 2

\* C9 (First-writer-wins): a replay returns the record stored by the first
\* apply and the current balance, whatever its own delta, actor and reason;
\* a record held by the ring is never modified while it is held; the record
\* stored by a first apply is built from that apply's command.
FirstWriterWins ==
    [][ lastCmd' # Null =>
          /\ InRing(buffer, lastCmd'.txnId) =>
                /\ result'.record = get(buffer, lastCmd'.txnId)
                /\ result'.balance = balance
          /\ \A t \in DOMAIN buffer.lookup :
                InRing(buffer', t) => get(buffer', t) = get(buffer, t)
          /\ ~InRing(buffer, lastCmd'.txnId) =>
                /\ result'.record.delta = lastCmd'.delta
                /\ result'.record.actor = lastCmd'.actor
                /\ result'.record.balanceAfter = balance + lastCmd'.delta
                /\ get(buffer', lastCmd'.txnId) = result'.record
          /\ InItems(session.ring, lastCmd'.txnId) =>
                luaResult'.record = session.ring.lookup[lastCmd'.txnId]
          /\ \A t \in DOMAIN session.ring.lookup :
                InItems(session'.ring, t) =>
                    session'.ring.lookup[t] = session.ring.lookup[t]
      ]_vars

\* a replay that differs from the first apply in delta, actor and reason was
\* answered with the first apply's record
FirstWriterWinsWitness ==
    /\ result # Null /\ result.processed = FALSE
    /\ result.record.txnId = lastCmd.txnId
    /\ result.record.delta # lastCmd.delta
    /\ result.record.actor # lastCmd.actor
    /\ result.record.reason # lastCmd.reason
    /\ result.record.processedAt # Clock(ticks - 1)
    /\ luaResult.record.delta # lastCmd.delta

-----------------------------------------------------------------------------
(* Driver 2: rings of the real capacity.  Fresh txnIds 1, 2, ... are applied
   in order with delta +1, replays of earlier txnIds are interleaved.  The
   store entry and the game profile start either absent/empty or with a
   processed list longer than the capacity (written by something else). *)

SeedRecord(i) ==
    [txnId |-> 100 + i, delta |-> 1, balanceAfter |-> i, actor |-> "admin#1",
     source |-> "discord", reason |-> NoReason, processedAt |-> 900]

SeedList(n) == [i \in 1..n |-> SeedRecord(i)]

\* an entry whose processed list has n records of +1 each
SeedEntry(n) == [data |-> [balance |-> n, processed |-> SeedList(n)], version |-> 1]

StartBalance == IF startEntry = Null THEN 0 ELSE startEntry.data.balance
StartList    == IF startEntry = Null THEN <<>> ELSE startEntry.data.processed

InitEvict ==
    /\ NoNodes
    /\ NoClient
    /\ NoApi
    /\ startEntry \in {Null, SeedEntry(MaxSeed)}
    /\ buffer = NewProcessedTxnBuffer(DefaultSize)
    /\ balance = 0
    /\ result = Null
    /\ session = attachProfile(IF startEntry = Null THEN PROFILE_TEMPLATE
                                ELSE startEntry.data)
    /\ luaResult = Null
    /\ store = [k \in {WalletKey(U1)} |-> startEntry]
    /\ storeResult = Null
    /\ calls = <<>>
    /\ lastCmd = Null
    /\ insertLog = <<>>
    /\ ticks = 0

\* the largest txnId applied so far
MaxId == IF insertLog = <<>> THEN 0
         ELSE CHOOSE m \in {insertLog[i].txnId : i \in 1..Len(insertLog)} :
                 \A i \in 1..Len(insertLog) : insertLog[i].txnId <= m

ApplyFresh ==
    /\ MaxId < DefaultSize + MaxExtra
    /\ Apply(Command(MaxId + 1, U1, 1, "admin#1", "discord", NoReason),
             Clock(ticks), NoTime)
    /\ ticks' = ticks + 1

\* a replay of the first, the second or the latest txnId, with either
\* envelope; the clock advances when the replay is applied as new
Replay ==
    \E t \in {1, 2, MaxId} \cap (1..MaxId) :
      /\ InRing(buffer, t) \/ Len(insertLog) < MaxId + MaxReapply
      /\ \E cmd \in Variants(t, U1) : Apply(cmd, Clock(ticks), TimestampOf(cmd))
      /\ ticks' = IF result'.processed THEN ticks + 1 ELSE ticks

NextEvict == ApplyFresh \/ Replay

SpecEvict == InitEvict /\ [][NextEvict]_vars

-----------------------------------------------------------------------------
(* Properties at the real capacity (driver 2) *)

\* <<a, a+1, ..., b>>
Range(a, b) == [i \in 1..(b - a + 1) |-> a + i - 1]

\* the deltas of the first apply of every distinct txnId, in order of apply
FirstApplies(log) ==
    [i \in 1..Len(log) |->
        [delta |-> IF \E j \in 1..(i - 1) : log[j].txnId = log[i].txnId
                   THEN 0 ELSE log[i].delta]]

\* C3 as stated (Conservation): starting from balance 0 and an empty
\* processed list, the balance equals the sum of delta over the distinct
\* txnIds ever applied.
Conservation ==
    startEntry = Null =>
        /\ balance = SumDelta(FirstApplies(insertLog))
        /\ session.profile.balance = SumDelta(FirstApplies(insertLog))
        /\ StoredProfile(U1) # Null =>
              StoredProfile(U1).balance = SumDelta(FirstApplies(insertLog))

\* C3 as amended: the balance equals the starting balance plus the sum of
\* delta over all applies that reported processed = true; a txnId applied
\* again after its eviction from the ring is counted again.
ConservationPerInsert ==
    /\ balance = SumDelta(insertLog)
    /\ session.profile.balance = StartBalance + SumDelta(insertLog)
    /\ StoredProfile(U1) # Null =>
          StoredProfile(U1).balance = StartBalance + SumDelta(insertLog)

\* replays were answered, some without effect and one after eviction
ConservationWitness ==
    /\ startEntry = Null
    /\ Len(insertLog) > DefaultSize + 1
    /\ result.processed = FALSE
    /\ StoredProfile(U1) # Null
    /\ balance = SumDelta(insertLog)

\* C6 (Ring bound): the rings never hold more than 64 records, and every
\* processed list written to the store or to profile.Data.processed has at
\* most 64 records, whatever the length of the list that was read.
RingBoundState ==
    /\ buffer.size = DefaultSize
    /\ Len(Held(buffer)) <= 64
    /\ Cardinality(DOMAIN buffer.lookup) <= 64
    /\ Len(session.ring.items) <= 64
    /\ Cardinality(DOMAIN session.ring.lookup) <= 64

RingBoundStep ==
    /\ session'.profile.processed # session.profile.processed
          => Len(session'.profile.processed) <= 64
    /\ store' # store => Len(StoredProfile(U1)'.processed) <= 64
    /\ (storeResult' # storeResult /\ storeResult'.processed)
          => Len(storeResult'.profile.processed) <= 64

RingBound == [](RingBoundState) /\ [][RingBoundStep]_vars

\* a processed list longer than the capacity was read and a profile written
RingBoundWitness ==
    /\ Len(StartList) > 64
    /\ StoredProfile(U1) # Null
    /\ store[WalletKey(U1)].version > 1
    /\ Len(StoredProfile(U1).processed) = 64
    /\ Len(session.profile.processed) = 64
    /\ Len(insertLog) > 64
    /\ Len(Held(buffer)) = 64

\* C10 (Eviction boundary): after T1..T65 with delta +1 from balance 0 the
\* balance is 65 and processed = T2..T65; a replay of T1 is then applied as
\* new: processed = true, balance 66, T1 re-inserted, T2 evicted.
AfterAll ==
    (startEntry = Null /\ Ids(insertLog) = Range(1, 65)) =>
        /\ balance = 65
        /\ Ids(Held(buffer)) = Range(2, 65)
        /\ session.profile.balance = 65
        /\ Ids(session.profile.processed) = Range(2, 65)
        /\ StoredProfile(U1).balance = 65
        /\ Ids(StoredProfile(U1).processed) = Range(2, 65)

AfterReplay ==
    (startEntry = Null /\ Len(insertLog) = 66
       /\ Ids(SubSeq(insertLog, 1, 65)) = Range(1, 65)
       /\ insertLog[66] = [txnId |-> 1, delta |-> 1]) =>
        /\ balance = 66
        /\ Ids(Held(buffer)) = Append(Range(3, 65), 1)
        /\ session.profile.balance = 66
        /\ Ids(session.profile.processed) = Append(Range(3, 65), 1)
        /\ StoredProfile(U1).balance = 66
        /\ Ids(StoredProfile(U1).processed) = Append(Range(3, 65), 1)

ReplayIsNew ==
    (startEntry = Null /\ Ids(insertLog) = Range(1, 65)
       /\ lastCmd' # Null /\ lastCmd'.txnId = 1) =>
        /\ result'.processed = TRUE
        /\ luaResult'.inserted = TRUE
        /\ storeResult'.processed = TRUE

EvictionBoundary == [](AfterAll /\ AfterReplay) /\ [][ReplayIsNew]_vars

\* T1 has been replayed with delta +1 after T1..T65 and was applied as new
EvictionBoundaryWitness ==
    /\ startEntry = Null
    /\ Len(insertLog) = 66
    /\ insertLog[66] = [txnId |-> 1, delta |-> 1]
    /\ lastCmd.txnId = 1
    /\ result.processed = TRUE
    /\ balance = 66

-----------------------------------------------------------------------------
(* Driver 3: applyEconomyTransaction calls running concurrently against one
   store entry.  Each call is the withBackoff loop of updateEconomyProfile:
   one iteration reads the entry (await getDataStoreEntry), computes, and, when
   the command is new, issues the write (await postDataStoreEntry).  Other
   calls run between the two awaits. *)

Callers == 1..MaxCallers

\* withBackoff, lines 410-417: after a throw at this attempt, is fn run again?
withBackoff_retry(attempt, retries) == attempt # retries

InitStore ==
    /\ NoNodes
    /\ NoClient
    /\ NoApi
    /\ startEntry \in {Null, SeedEntry(0), SeedEntry(1)}
    /\ store = [k \in {WalletKey(U1)} |-> startEntry]
    /\ \E cmds \in [Callers -> Commands] :
         calls = [c \in Callers |->
                    [pc |-> "read", command |-> cmds[c], attempt |-> 0,
                     current |-> Null, computed |-> Null, result |-> Null]]
    /\ buffer = NewProcessedTxnBuffer(DefaultSize)
    /\ balance = 0
    /\ result = Null
    /\ session = attachProfile(PROFILE_TEMPLATE)
    /\ luaResult = Null
    /\ storeResult = Null
    /\ lastCmd = Null
    /\ insertLog = <<>>
    /\ ticks = 0

\* lines 536-566: the read, the rebuild of the ring and the apply; a command
\* already in the ring returns without writing
ReadEntry(c) ==
    /\ calls[c].pc = "read"
    /\ LET command == calls[c].command
           current == getDataStoreEntry(store, WalletKey(command.userId))
           comp    == updateEconomyProfile_compute(current, command, Clock(ticks))
           res     == [balance |-> comp.balance, processed |-> comp.processed,
                       record |-> comp.record, profile |-> comp.profile]
       IN  calls' = [calls EXCEPT ![c] =
                       IF comp.write
                       THEN [@ EXCEPT !.pc = "write", !.current = current,
                                      !.computed = res]
                       ELSE [@ EXCEPT !.pc = "done", !.current = current,
                                      !.result = res]]
    /\ ticks' = ticks + 1
    /\ UNCHANGED <<buffer, balance, result, session, luaResult, store, storeResult,
                   lastCmd, insertLog, startEntry>>
    /\ UNCHANGED nodeVars
    /\ UNCHANGED clientVars
    /\ UNCHANGED apiVars

\* lines 568-578: the write is accepted and the call returns
WriteEntry(c) ==
    /\ calls[c].pc = "write"
    /\ LET command == calls[c].command
           w == postDataStoreEntry(store, WalletKey(command.userId),
                                   calls[c].computed.profile, calls[c].current.version)
       IN  /\ w.ok
           /\ store' = w.store
           /\ calls' = [calls EXCEPT ![c] =
                          [@ EXCEPT !.pc = "done", !.result = calls[c].computed]]
           /\ insertLog' = Append(insertLog,
                                  [txnId |-> command.txnId, delta |-> command.delta])
    /\ UNCHANGED <<buffer, balance, result, session, luaResult, storeResult,
                   lastCmd, ticks, startEntry>>
    /\ UNCHANGED nodeVars
    /\ UNCHANGED clientVars
    /\ UNCHANGED apiVars

\* lines 570-576 and withBackoff: the write is rejected (code 11), the error
\* is rethrown and the iteration runs again unless the attempts are used up
WriteConflict(c) ==
    /\ calls[c].pc = "write"
    /\ LET command == calls[c].command
           w == postDataStoreEntry(store, WalletKey(command.userId),
                                   calls[c].computed.profile, calls[c].current.version)
       IN  /\ ~w.ok
           /\ calls' = [calls EXCEPT ![c] =
                          IF withBackoff_retry(calls[c].attempt, maxRetries)
                          THEN [@ EXCEPT !.pc = "read", !.attempt = @ + 1,
                                         !.current = Null, !.computed = Null]
                          ELSE [@ EXCEPT !.pc = "failed"]]
    /\ UNCHANGED <<buffer, balance, result, session, luaResult, store, storeResult,
                   lastCmd, insertLog, ticks, startEntry>>
    /\ UNCHANGED nodeVars
    /\ UNCHANGED clientVars
    /\ UNCHANGED apiVars

NextStore ==
    \E c \in Callers : ReadEntry(c) \/ WriteEntry(c) \/ WriteConflict(c)

SpecStore == InitStore /\ [][NextStore]_vars

-----------------------------------------------------------------------------
(* Properties of concurrent store writers (driver 3) *)

AllReturned == \A c \in Callers : calls[c].pc \in {"done", "failed"}

DistinctTxnIds ==
    \A c1, c2 \in Callers : c1 # c2 => calls[c1].command.txnId # calls[c2].command.txnId

RECURSIVE SumOfCalls(_)
SumOfCalls(n) == IF n = 0 THEN 0 ELSE calls[n].command.delta + SumOfCalls(n - 1)

\* what sequential application of all the calls' commands leaves in the store
SequentialOutcome ==
    /\ store[WalletKey(U1)] # Null
    /\ store[WalletKey(U1)].data.balance = StartBalance + SumOfCalls(MaxCallers)
    /\ \A c \in Callers :
         \E i \in 1..Len(store[WalletKey(U1)].data.processed) :
            store[WalletKey(U1)].data.processed[i].txnId = calls[c].command.txnId

\* C5: calls with distinct txnIds for one user, interleaved arbitrarily and
\* started on any store state (the entry may not exist yet), leave the
\* persisted profile that applying their commands one after the other leaves:
\* balance = initial + the deltas, processed contains every txnId.
ConcurrentWriters ==
    (AllReturned /\ DistinctTxnIds) => SequentialOutcome

\* the same, for a user whose entry exists when the calls start
ConcurrentWritersOnEntry ==
    (AllReturned /\ DistinctTxnIds /\ startEntry # Null) => SequentialOutcome

\* both calls read before either wrote, one was rejected and ran again
ConcurrentWritersOnEntryWitness ==
    /\ AllReturned /\ DistinctTxnIds /\ startEntry # Null
    /\ \E c \in Callers : calls[c].attempt > 0
    /\ SequentialOutcome

\* both calls read a missing entry before either wrote
LostUpdate ==
    /\ AllReturned /\ DistinctTxnIds /\ startEntry = Null
    /\ \A c \in Callers : calls[c].attempt = 0 /\ calls[c].result.processed
    /\ ~SequentialOutcome

-----------------------------------------------------------------------------
(* Driver 4: the game script running on several nodes.  One command envelope
   for user U1 is published on the command topic; MessagingService hands it to
   the subscription callback of every node, possibly more than once.  Players
   join and leave.  Every yielding call of the script (LoadProfileAsync,
   PublishAsync, PostAsync) ends a step: other tasks of any node run before
   the call returns. *)

Nodes == {"n1", "n2"}
Users == {U1}
NoOwner == "none"
SessionRefresh == 0          \* the txnId "session-refresh" of onPlayerAdded's event

\* "wallet_" .. userId
ProfileKey(userId) == "wallet_" \o userId

CommandTasks == [node : Nodes, kind : {"command"}, no : 1..MaxDeliver]
JoinTasks    == [node : Nodes, kind : {"join"}, no : 1..MaxJoins]
Started(ts)  == Cardinality({t \in ts : threads[t].pc # "idle"})
Tasks        == CommandTasks \cup JoinTasks

IdleTask == [pc |-> "idle", releaseAfter |-> FALSE, record |-> Null, warned |-> FALSE]

\* the lowest-numbered task of that kind on the node that has not started
NextTask(n, kind, max) ==
    LET free == {k \in 1..max : threads[[node |-> n, kind |-> kind, no |-> k]].pc = "idle"}
    IN  IF free = {} THEN Null
        ELSE [node |-> n, kind |-> kind,
              no |-> CHOOSE k \in free : \A j \in free : k <= j]

(* ProfileService.  The library is not part of the script; it is modelled by
   its contract: a profile is session-locked by at most one node, Release
   saves Data, drops the lock and runs the release listeners. *)

\* the world a release acts on
World(as, pr, pl) == [ActiveSessions |-> as, profiles |-> pr, players |-> pl]

\* attachProfile without the listener's assignment: the entry outlives the release
attachProfile_onRelease_keep(sessions, userId) == sessions

\* lines 302-304: the listener attachProfile registers
attachProfile_onRelease(sessions, userId) == [sessions EXCEPT ![userId] = Null]

\* lines 368-371: the listener onPlayerAdded registers (the kick is returned
\* as the player's new state)
onPlayerAdded_onRelease(sessions, userId, player) ==
    [sessions |-> [sessions EXCEPT ![userId] = Null],
     player   |-> IF player = "present" THEN "leaving" ELSE player]

\* profile:Release() of the profile in node n's entry for userId
Release(w, n, userId) ==
    LET e  == w.ActiveSessions[n][userId]
        s1 == attachProfile_onRelease(w.ActiveSessions[n], userId)
        k  == onPlayerAdded_onRelease(s1, userId, w.players[n])
    IN  IF ~e.active THEN w
        ELSE [ActiveSessions |-> [w.ActiveSessions EXCEPT ![n] =
                                     IF e.kick THEN k.sessions ELSE s1],
              profiles |-> [w.profiles EXCEPT ![ProfileKey(userId)] =
                              [data |-> e.profile, owner |-> NoOwner]],
              players  |-> [w.players EXCEPT ![n] = IF e.kick THEN k.player ELSE @]]

\* lines 309-315
releaseProfile(w, n, userId) ==
    LET state == w.ActiveSessions[n][userId]
    IN  IF state # Null
        THEN LET r == Release(w, n, userId)
             IN  [r EXCEPT !.ActiveSessions[n][userId] = Null]
        ELSE w

(* The ways a pending LoadProfileAsync(key, "ForceLoad") of task t can end:
   nil when a later call of the same node took over the load or when the
   lock stays with another node; otherwise the profile, after the node that
   held the lock released it. *)
LoadProfileAsync(w, t, key, userId) ==
    LET n     == t.node
        owner == w.profiles[key].owner
        take(v) == [profile |-> v.profiles[key].data,
                    world   |-> [v EXCEPT !.profiles[key].owner = n]]
    IN  IF loadJobs[n] # t THEN {[profile |-> Null, world |-> w]}
        ELSE IF owner = NoOwner THEN {take(w)}
        ELSE IF owner = n THEN {[profile |-> Null, world |-> w]}
        ELSE {[profile |-> Null, world |-> w], take(Release(w, owner, userId))}

\* the ActiveSessions entry attachProfile stores for a loaded profile; kick
\* tells whether onPlayerAdded added its listener to the profile
Attached(data, kick) ==
    LET st == attachProfile(data)
    IN  [profile |-> st.profile, ring |-> st.ring, kick |-> kick, active |-> TRUE]

\* an applyCommand that works on a fresh profile when none was obtained
applyCommand_acquire_fallback(profile) ==
    [state  |-> Attached(IF profile = Null THEN PROFILE_TEMPLATE ELSE profile, FALSE),
     warned |-> profile = Null]

\* applyCommand, lines 323-330: what the handler does with the value
\* LoadProfileAsync returned
applyCommand_acquire(profile) ==
    IF profile = Null
    THEN [state |-> Null, warned |-> TRUE]
    ELSE [state |-> Attached(profile, FALSE), warned |-> FALSE]

\* an applyCommand that broadcasts and logs whatever push returned
applyCommand_run_sideEffects(w, t, command, releaseAfter, now) ==
    LET n == t.node
        userId == command.userId
        e == w.ActiveSessions[n][userId]
        a == applyCommand_apply([profile |-> e.profile, ring |-> e.ring], command, now)
    IN  [world |-> [w EXCEPT !.ActiveSessions[n][userId] =
                      [e EXCEPT !.profile = a.state.profile, !.ring = a.state.ring]],
         task  |-> [pc |-> "publish", releaseAfter |-> releaseAfter,
                    record |-> a.record, warned |-> FALSE],
         inserted |-> a.inserted]

(* applyCommand, lines 332-357, from the mutation to the first yield or to
   the end: on node t.node, whose entry for the user is set.  Returns the
   world after, the task after and whether a record was inserted.  A task
   whose handler ended with an error is "failed". *)
applyCommand_run(w, t, command, releaseAfter, now) ==
    LET n == t.node
        userId == command.userId
        e == w.ActiveSessions[n][userId]
        a == applyCommand_apply([profile |-> e.profile, ring |-> e.ring], command, now)
    IN  IF command.delta = NoDelta
        THEN \* line 332: arithmetic on nil raises an error, the handler ends
             [world |-> w,
              task  |-> [pc |-> "failed", releaseAfter |-> releaseAfter,
                         record |-> Null, warned |-> FALSE],
              inserted |-> FALSE]
        ELSE IF a.inserted
        THEN [world |-> [w EXCEPT !.ActiveSessions[n][userId] =
                           [e EXCEPT !.profile = a.state.profile, !.ring = a.state.ring]],
              task  |-> [pc |-> "publish", releaseAfter |-> releaseAfter,
                         record |-> a.record, warned |-> FALSE],
              inserted |-> TRUE]
        ELSE [world |-> IF releaseAfter THEN releaseProfile(w, n, userId) ELSE w,
              task  |-> [pc |-> "done", releaseAfter |-> releaseAfter,
                         record |-> a.record, warned |-> FALSE],
              inserted |-> FALSE]

(* A message on the topic: json tells what message.Data decodes to ("table",
   "number", or "invalid" when JSONDecode fails), type and payload are the
   members of the decoded table (Null: absent). *)
CommandMessage(command) ==
    [json |-> "table", type |-> "economy.command", payload |-> command]

(* subscribe, lines 393-403: what the callback does with a message: "warn"
   (decoding failed, line 397), "error" (indexing a value that is no table
   raises, line 401), "apply" (applyCommand is called) or "ignore". *)
subscribe_callback(msg) ==
    IF msg.json = "invalid" THEN "warn"
    ELSE IF msg.json # "table" THEN "error"
    ELSE IF msg.type = "economy.command" /\ msg.payload # Null THEN "apply"
    ELSE "ignore"

InitFleet(messages) ==
    /\ NoApi
    /\ NoClient
    /\ message \in messages
    /\ lastCmd = message.payload
    /\ startEntry \in {Null, SeedEntry(1)}
    /\ \E resident \in {"n1", NoOwner} :
         LET data == IF startEntry = Null THEN PROFILE_TEMPLATE ELSE startEntry.data
         IN  /\ profiles = [k \in {ProfileKey(U1)} |-> [data |-> data, owner |-> resident]]
             /\ ActiveSessions = [n \in Nodes |-> [u \in Users |->
                                    IF n = resident THEN Attached(data, TRUE) ELSE Null]]
             /\ players = [n \in Nodes |-> IF n = resident THEN "present" ELSE "absent"]
    /\ loadJobs = [n \in Nodes |-> Null]
    /\ threads = [t \in Tasks |-> IdleTask]
    /\ published = {}
    /\ logged = {}
    /\ store = [k \in {WalletKey(U1)} |-> Null]
    /\ calls = <<>>
    /\ buffer = NewProcessedTxnBuffer(DefaultSize)
    /\ balance = 0
    /\ result = Null
    /\ session = attachProfile(PROFILE_TEMPLATE)
    /\ luaResult = Null
    /\ storeResult = Null
    /\ insertLog = <<>>
    /\ ticks = 0

WellFormedMessages == {CommandMessage(c) : c \in Variants(1, U1)}

InitNodes == InitFleet(WellFormedMessages)

\* the variables the game nodes never touch
NodesLeave == UNCHANGED <<buffer, balance, result, session, luaResult, store,
                          storeResult, calls, lastCmd, startEntry,
                          posts, webhookDelivery, auditLog, checked,
                          message, bot, http>>

\* the world after a step, and the bookkeeping of an apply
SetWorld(w) ==
    /\ ActiveSessions' = w.ActiveSessions
    /\ profiles' = w.profiles
    /\ players' = w.players

Ran(t, r) ==
    /\ SetWorld(r.world)
    /\ threads' = [threads EXCEPT ![t] = r.task]
    /\ insertLog' = IF r.inserted
                    THEN Append(insertLog, [txnId |-> lastCmd.txnId,
                                            delta |-> lastCmd.delta])
                    ELSE insertLog
    /\ ticks' = IF r.inserted THEN ticks + 1 ELSE ticks

\* subscribe, lines 393-403, and applyCommand up to its first yield: the
\* callback of node n receives the message
Deliver(n) ==
    LET t == NextTask(n, "command", MaxDeliver)
        userId == lastCmd.userId
        act == subscribe_callback(message)
    IN  /\ t # Null
        /\ IF act # "apply"
           THEN /\ threads' = [threads EXCEPT ![t] =
                                 [IdleTask EXCEPT !.pc = IF act = "error" THEN "failed"
                                                        ELSE "done",
                                                  !.warned = (act = "warn")]]
                /\ UNCHANGED <<ActiveSessions, profiles, players, insertLog, ticks,
                               loadJobs>>
           ELSE IF ActiveSessions[n][userId] # Null
           THEN /\ Ran(t, applyCommand_run(World(ActiveSessions, profiles, players),
                                           t, lastCmd, FALSE, Clock(ticks)))
                /\ UNCHANGED loadJobs
           ELSE /\ threads' = [threads EXCEPT ![t] = [IdleTask EXCEPT !.pc = "load"]]
                /\ loadJobs' = [loadJobs EXCEPT ![n] = t]
                /\ UNCHANGED <<ActiveSessions, profiles, players, insertLog, ticks>>
        /\ UNCHANGED <<published, logged>>
        /\ NodesLeave

\* applyCommand resumes with the result of LoadProfileAsync
LoadReturns(t) ==
    /\ t \in CommandTasks
    /\ threads[t].pc = "load"
    /\ \E out \in LoadProfileAsync(World(ActiveSessions, profiles, players), t,
                                   ProfileKey(lastCmd.userId), lastCmd.userId) :
         LET acq == applyCommand_acquire(out.profile)
             w1  == [out.world EXCEPT !.ActiveSessions[t.node][lastCmd.userId] = acq.state]
         IN  IF acq.state = Null
             THEN /\ threads' = [threads EXCEPT ![t] =
                                   [IdleTask EXCEPT !.pc = "done", !.warned = acq.warned]]
                  /\ SetWorld(out.world)
                  /\ UNCHANGED <<insertLog, ticks>>
             ELSE Ran(t, applyCommand_run(w1, t, lastCmd, TRUE, Clock(ticks)))
    /\ loadJobs' = [loadJobs EXCEPT ![t.node] = IF @ = t THEN Null ELSE @]
    /\ UNCHANGED <<published, logged>>
    /\ NodesLeave

\* a broadcastEvent that calls PublishAsync unprotected: the error of a
\* failed publish ends the caller
broadcastEvent_unprotected(ok, kind) ==
    IF ~ok THEN "failed" ELSE IF kind = "command" THEN "log" ELSE "done"

\* lines 249-254: where the caller of broadcastEvent continues after the
\* pcall around PublishAsync returned ok: applyCommand goes on to logToApi,
\* onPlayerAdded ends
broadcastEvent_pcall(ok, kind) == IF kind = "command" THEN "log" ELSE "done"

\* broadcastEvent, lines 234-263: PublishAsync returns or fails
Publish(t) ==
    /\ threads[t].pc = "publish"
    /\ \E ok \in BOOLEAN :
         /\ published' = IF ok
                         THEN published \cup {[topic   |-> "economy-events:" \o lastCmd.userId,
                                               txnId   |-> threads[t].record.txnId,
                                               balance |-> threads[t].record.balanceAfter]}
                         ELSE published
         /\ threads' = [threads EXCEPT ![t].pc = broadcastEvent_pcall(ok, t.kind)]
    /\ UNCHANGED <<ActiveSessions, profiles, players, loadJobs, logged, insertLog, ticks>>
    /\ NodesLeave

\* logToApi, lines 265-290: PostAsync returns or fails (pcall); then
\* lines 355-357: a session acquired for this command is released
Log(t) ==
    /\ threads[t].pc = "log"
    /\ \E ok \in BOOLEAN :
         logged' = IF ok
                   THEN logged \cup {[key   |-> <<"roblox", t.node, threads[t].record.txnId>>,
                                      txnId |-> threads[t].record.txnId]}
                   ELSE logged
    /\ SetWorld(IF threads[t].releaseAfter
                THEN releaseProfile(World(ActiveSessions, profiles, players),
                                    t.node, lastCmd.userId)
                ELSE World(ActiveSessions, profiles, players))
    /\ threads' = [threads EXCEPT ![t].pc = "done"]
    /\ UNCHANGED <<loadJobs, published, insertLog, ticks>>
    /\ NodesLeave

\* Players.PlayerAdded fires on node n: onPlayerAdded up to LoadProfileAsync,
\* which raises an error when the profile is already loaded on this node
PlayerAdded(n) ==
    LET t == NextTask(n, "join", MaxJoins)
    IN  /\ t # Null
        /\ Started(JoinTasks) < MaxJoins
        /\ \A m \in Nodes : players[m] # "present"
        /\ players[n] = "absent"
        /\ players' = [players EXCEPT ![n] = "present"]
        /\ IF profiles[ProfileKey(U1)].owner = n
           THEN /\ threads' = [threads EXCEPT ![t] = [IdleTask EXCEPT !.pc = "done"]]
                /\ UNCHANGED loadJobs
           ELSE /\ threads' = [threads EXCEPT ![t] = [IdleTask EXCEPT !.pc = "load"]]
                /\ loadJobs' = [loadJobs EXCEPT ![n] = t]
        /\ UNCHANGED <<ActiveSessions, profiles, published, logged, insertLog, ticks>>
        /\ NodesLeave

\* onPlayerAdded, lines 362-382, resumes with the result of LoadProfileAsync
JoinLoadReturns(t) ==
    /\ t \in JoinTasks
    /\ threads[t].pc = "load"
    /\ \E out \in LoadProfileAsync(World(ActiveSessions, profiles, players), t,
                                   ProfileKey(U1), U1) :
         IF out.profile = Null
         THEN /\ SetWorld([out.world EXCEPT !.players[t.node] =
                              IF @ = "present" THEN "leaving" ELSE @])
              /\ threads' = [threads EXCEPT ![t] = [IdleTask EXCEPT !.pc = "done"]]
         ELSE /\ SetWorld([out.world EXCEPT !.ActiveSessions[t.node][U1] =
                              Attached(out.profile, TRUE)])
              /\ threads' = [threads EXCEPT ![t] =
                               [IdleTask EXCEPT !.pc = "publish",
                                  !.record = [txnId |-> SessionRefresh, delta |-> 0,
                                              balanceAfter |-> out.profile.balance,
                                              actor |-> "system", source |-> "game",
                                              processedAt |-> Clock(ticks)]]]
    /\ loadJobs' = [loadJobs EXCEPT ![t.node] = IF @ = t THEN Null ELSE @]
    /\ UNCHANGED <<published, logged, insertLog, ticks>>
    /\ NodesLeave

\* lines 386-388: the player leaves node n, or has been kicked from it
PlayerRemoving(n) ==
    /\ players[n] \in {"present", "leaving"}
    /\ LET w == releaseProfile(World(ActiveSessions, profiles, players), n, U1)
       IN  SetWorld([w EXCEPT !.players[n] = "absent"])
    /\ UNCHANGED <<loadJobs, threads, published, logged, insertLog, ticks>>
    /\ NodesLeave

NextNodes ==
    \/ \E n \in Nodes : Deliver(n) \/ PlayerAdded(n) \/ PlayerRemoving(n)
    \/ \E t \in Tasks : LoadReturns(t) \/ JoinLoadReturns(t) \/ Publish(t) \/ Log(t)

SpecNodes == InitNodes /\ [][NextNodes]_vars

-----------------------------------------------------------------------------
(* Properties of the fleet of game nodes (driver 4) *)

\* the nodes holding the user's session: an entry with an unreleased profile
Holders(userId) ==
    {n \in Nodes : ActiveSessions[n][userId] # Null /\ ActiveSessions[n][userId].active}

\* the user's wallet: the Data of the session that is held, else the saved Data
Wallet(userId) ==
    IF Holders(userId) # {}
    THEN ActiveSessions[CHOOSE n \in Holders(userId) : TRUE][userId].profile
    ELSE profiles[ProfileKey(userId)].data

FirstCommandTask(n) == [node |-> n, kind |-> "command", no |-> 1]
DeliveredEverywhere == \A n \in Nodes : threads[FirstCommandTask(n)].pc # "idle"
Quiet == \A t \in Tasks : threads[t].pc \in {"idle", "done"}
AppliedOnce ==
    /\ Wallet(U1).balance = StartBalance + lastCmd.delta
    /\ \E i \in 1..Len(Wallet(U1).processed) :
          Wallet(U1).processed[i].txnId = lastCmd.txnId

\* no PlayerAdded has fired since the start: the user stays resident where
\* they were, or is resident nowhere
NoJoin == Started(JoinTasks) = 0

\* C2: one envelope delivered one or more times to every node, the nodes'
\* applyCommand executions interleaved in any way (the user resident on one
\* node, the others acquiring opportunistically or failing to acquire): the
\* balance never moves by more than one application of delta, and once every
\* node has handled its deliveries it has moved by exactly one.
ExactlyOnce ==
    /\ Wallet(U1).balance \in {StartBalance, StartBalance + lastCmd.delta}
    /\ Len(insertLog) <= 1
    /\ (DeliveredEverywhere /\ Quiet /\ NoJoin) => AppliedOnce

\* a node received the envelope twice, another node once, all handled
ExactlyOnceWitness ==
    /\ DeliveredEverywhere /\ Quiet /\ NoJoin
    /\ players["n1"] = "present"
    /\ \E n \in Nodes : threads[[node |-> n, kind |-> "command", no |-> 2]].pc = "done"
    /\ \E t \in CommandTasks : threads[t].warned
    /\ AppliedOnce

SingleWriterState ==
    \A u \in Users :
      /\ Cardinality(Holders(u)) <= 1
      /\ \A n \in Holders(u) : profiles[ProfileKey(u)].owner = n

\* a handler that did not obtain the session (line 325) ends in the same step
Gave_up(t) == threads[t].pc = "load" /\ threads'[t].pc = "done" /\ threads'[t].warned

NoOpStep ==
    \A t \in CommandTasks :
       Gave_up(t) => /\ ActiveSessions' = ActiveSessions
                     /\ profiles' = profiles

\* C4: at most one node holds a user's session (an ActiveSessions entry with
\* an unreleased profile) in every reachable state, and a command handled by
\* a node that fails to obtain the session changes no balance and no
\* processed list.
SingleWriter == [](SingleWriterState) /\ [][NoOpStep]_vars

\* a node gave up on the envelope while another node holds the session in
\* which it was applied
SingleWriterWitness ==
    \E t \in CommandTasks :
      /\ threads[t].pc = "done" /\ threads[t].warned
      /\ \E n \in Holders(U1) : n # t.node
      /\ Len(insertLog) = 1

-----------------------------------------------------------------------------
(* apps/api/src/index.ts : the audit API server.

   Strings that the server inspects character by character (signatures and
   digests) are sequences of one-character strings.  A JSON payload is the
   pair of its key order and its members: two payloads with the same members
   written in a different order are different texts. *)

HexChars == <<"0", "1", "2", "3", "4", "5", "6", "7",
              "8", "9", "a", "b", "c", "d", "e", "f">>
UpperChars == <<"A", "B", "C", "D", "E", "F", "G">>
LowerChars == <<"a", "b", "c", "d", "e", "f", "g">>

IsHex(c) == \E i \in 1..16 : HexChars[i] = c
HexVal(c) == (CHOOSE i \in 1..16 : HexChars[i] = c) - 1

\* String.prototype.toLowerCase / toUpperCase, one character
ToLowerChar(c) ==
    IF \E i \in 1..7 : UpperChars[i] = c
    THEN LowerChars[CHOOSE i \in 1..7 : UpperChars[i] = c] ELSE c
ToUpperChar(c) ==
    IF \E i \in 1..7 : LowerChars[i] = c
    THEN UpperChars[CHOOSE i \in 1..7 : LowerChars[i] = c] ELSE c
toLowerCase(str) == [i \in 1..Len(str) |-> ToLowerChar(str[i])]
toUpperCase(str) == [i \in 1..Len(str) |-> ToUpperChar(str[i])]

(* Buffer.from(str, "hex"): the bytes of the leading pairs of hex digits;
   decoding stops at the first pair that is not two hex digits, and an odd
   last character is dropped. *)
RECURSIVE ValidPairs(_, _)
ValidPairs(str, k) ==
    IF 2 * k + 2 <= Len(str) /\ IsHex(str[2 * k + 1]) /\ IsHex(str[2 * k + 2])
    THEN ValidPairs(str, k + 1) ELSE k

Buffer_from_hex(str) ==
    [i \in 1..ValidPairs(str, 0) |-> 16 * HexVal(str[2 * i - 1]) + HexVal(str[2 * i])]

\* crypto.timingSafeEqual: throws a RangeError on buffers of different length
timingSafeEqual(a, b) ==
    IF Len(a) # Len(b) THEN [threw |-> TRUE, equal |-> FALSE]
    ELSE [threw |-> FALSE, equal |-> a = b]

\* logToApi, part_001 lines 266-275: the payload a node posts for a record
logToApi_payload(userId, rec) ==
    [txnId |-> rec.txnId, userId |-> userId, delta |-> rec.delta,
     actor |-> rec.actor, source |-> rec.source, balance |-> rec.balanceAfter,
     occurredAt |-> rec.processedAt, reason |-> rec.reason]

\* the payloads of the model: for txnId 1 and 2, either envelope applied to
\* an empty wallet, written in either of two key orders
AuditPayloadOf(order, cmd) ==
    [order  |-> order,
     members |-> logToApi_payload(cmd.userId,
                    applyCommand_apply(attachProfile(PROFILE_TEMPLATE), cmd, Clock(0)).record)]

PayloadList ==
    LET c(t, k) == IF k = 1 THEN Command(t, U1, 1, "admin#1", "discord", NoReason)
                   ELSE Command(t, U1, -2, "mod#2", "game", "gift")
    IN  [i \in 1..(4 * MaxAuditTxn) |->
           AuditPayloadOf(1 + ((i - 1) % 2), c(1 + ((i - 1) \div 4), 1 + (((i - 1) \div 2) % 2)))]

AuditPayloads == {PayloadList[i] : i \in 1..Len(PayloadList)}

\* JSON.stringify(payload): the text, determined by the key order and the
\* members present (a reason that is undefined is left out)
JSON_stringify(payload) ==
    [keys    |-> <<payload.order, payload.members.reason # NoReason>>,
     members |-> payload.members]

\* the hex digest of a keyed or unkeyed SHA-256 over a text: 2 * DigestBytes
\* lowercase hex digits, different for different (key, text)
Secrets == <<"HMAC_SECRET", "another secret", "">>
DigestOf(n) ==
    [i \in 1..(2 * DigestBytes) |->
       HexChars[(((IF i % 2 = 0 THEN n ELSE n \div 16) * 7 + i * 5) % 16) + 1]]
TextIndex(text) == CHOOSE i \in 1..Len(PayloadList) : JSON_stringify(PayloadList[i]) = text
KeyIndex(key) == CHOOSE i \in 1..Len(Secrets) : Secrets[i] = key
createHmac_digest(key, text) == DigestOf(TextIndex(text) + Len(PayloadList) * (KeyIndex(key) - 1))

\* lines 61-65
hashPayload(payload) == [sha256 |-> JSON_stringify(payload)]

\* a submitted signature: absent, a string, or a JSON value that is no string
NoSignature == [kind |-> "absent", chars |-> <<>>]
Str(chars) == [kind |-> "string", chars |-> chars]
NotAString == [kind |-> "number", chars |-> <<>>]

\* verifySignature without the length test and the try
verifySignature_unguarded(payload, signature) ==
    LET expected   == createHmac_digest(Secrets[1], JSON_stringify(payload))
        normalized == toLowerCase(signature.chars)
        cmp == timingSafeEqual(Buffer_from_hex(normalized), Buffer_from_hex(expected))
    IN  IF signature.kind = "absent" \/ (signature.kind = "string" /\ signature.chars = <<>>)
        THEN [threw |-> FALSE, value |-> FALSE]
        ELSE IF signature.kind # "string" THEN [threw |-> TRUE, value |-> FALSE]
        ELSE [threw |-> cmp.threw, value |-> cmp.equal]

(* verifySignature, lines 44-59.  threw: a TypeError leaves the function
   (signature.toLowerCase is not a function when the signature is no string);
   the RangeError of timingSafeEqual is caught and gives false. *)
verifySignature(payload, signature) ==
    LET expected   == createHmac_digest(Secrets[1], JSON_stringify(payload))
        normalized == toLowerCase(signature.chars)
        cmp == timingSafeEqual(Buffer_from_hex(normalized), Buffer_from_hex(expected))
    IN  IF signature.kind = "absent" \/ (signature.kind = "string" /\ signature.chars = <<>>)
        THEN [threw |-> FALSE, value |-> FALSE]
        ELSE IF signature.kind # "string" THEN [threw |-> TRUE, value |-> FALSE]
        ELSE IF Len(expected) # Len(normalized) THEN [threw |-> FALSE, value |-> FALSE]
        ELSE IF cmp.threw THEN [threw |-> FALSE, value |-> FALSE]
        ELSE [threw |-> FALSE, value |-> cmp.equal]

-----------------------------------------------------------------------------
(* Driver 5: verifySignature applied to one payload and one submitted
   signature. *)

\* all strings over the alphabet of at most n characters
RECURSIVE StringsUpTo(_, _)
StringsUpTo(alphabet, n) ==
    IF n = 0 THEN {<<>>}
    ELSE LET shorter == StringsUpTo(alphabet, n - 1)
         IN  shorter \cup {Append(str, c) : str \in shorter, c \in alphabet}

\* signatures derived from the expected digest e: itself, in upper case,
\* truncated, extended, with one character replaced, made with another key
NearSignatures(payload) ==
    LET e == createHmac_digest(Secrets[1], JSON_stringify(payload))
    IN  {e, toUpperCase(e), Append(e, "0"),
         createHmac_digest(Secrets[2], JSON_stringify(payload))}
        \cup {SubSeq(e, 1, k) : k \in 0..(Len(e) - 1)}
        \cup {[e EXCEPT ![i] = c] : i \in 1..Len(e), c \in {"0", "f", "F", "g", "z", " "}}

Signatures(payload) ==
    {NoSignature, NotAString}
    \cup {Str(chars) : chars \in NearSignatures(payload)}
    \cup {Str(chars) : chars \in StringsUpTo({"0", "a", "A", "g"}, 2 * DigestBytes + 1)}

InitVerify ==
    /\ NoNodes
    /\ NoClient
    /\ posts = <<>>
    /\ webhookDelivery = <<>>
    /\ auditLog = <<>>
    /\ \E payload \in AuditPayloads : \E signature \in Signatures(payload) :
         checked = [payload |-> payload, signature |-> signature, result |-> Null]
    /\ store = [k \in {WalletKey(U1)} |-> Null]
    /\ calls = <<>>
    /\ buffer = NewProcessedTxnBuffer(DefaultSize)
    /\ balance = 0
    /\ result = Null
    /\ session = attachProfile(PROFILE_TEMPLATE)
    /\ luaResult = Null
    /\ storeResult = Null
    /\ lastCmd = Null
    /\ insertLog = <<>>
    /\ ticks = 0
    /\ startEntry = Null

Verify ==
    /\ checked.result = Null
    /\ checked' = [checked EXCEPT !.result = verifySignature(checked.payload, checked.signature)]
    /\ UNCHANGED <<buffer, balance, result, session, luaResult, store, storeResult, calls,
                   lastCmd, insertLog, ticks, startEntry, posts, webhookDelivery, auditLog>>
    /\ UNCHANGED nodeVars
    /\ UNCHANGED clientVars

NextVerify == Verify

SpecVerify == InitVerify /\ [][NextVerify]_vars

Expected == createHmac_digest(Secrets[1], JSON_stringify(checked.payload))

\* C15: for every submitted signature string (of another length than the
\* digest, empty, or of the right length with characters that are no hex
\* digits) verifySignature returns without raising an error, and it returns
\* true exactly when the signature equals the expected digest ignoring case.
VerifyTotal ==
    (checked.result # Null /\ checked.signature.kind = "string") =>
        /\ ~checked.result.threw
        /\ checked.result.value <=> (toLowerCase(checked.signature.chars) = Expected)

\* a signature of the right length with a character that is no hex digit
\* was rejected
VerifyTotalWitness ==
    /\ checked.result # Null /\ checked.signature.kind = "string"
    /\ Len(checked.signature.chars) = Len(Expected)
    /\ \E i \in 1..Len(Expected) : ~IsHex(ToLowerChar(checked.signature.chars[i]))
    /\ checked.result = [threw |-> FALSE, value |-> FALSE]

\* the digest in upper case was accepted
VerifyUpperCase ==
    /\ checked.result # Null
    /\ checked.signature = Str(toUpperCase(Expected))
    /\ checked.signature.chars # Expected
    /\ checked.result.value

-----------------------------------------------------------------------------
(* Driver 6: POST /log/transactions.  A handler runs without interruption up
   to `await prisma.$transaction`; the transactions of different requests run
   one at a time (one SQLite writer), in any order. *)

NoKey == "<undefined>"
NoPayload == Null

Request(sigHeader, keyHeader, payload, sigBody, keyBody) ==
    [sigHeader |-> sigHeader, keyHeader |-> keyHeader,
     body |-> [payload |-> payload, signature |-> sigBody, idempotencyKey |-> keyBody]]

Sign(payload) == Str(createHmac_digest(Secrets[1], JSON_stringify(payload)))

\* requests signed by a node, with or without a key
SignedRequests ==
    {Request(Sign(p), key, p, NoSignature, NoKey) :
        p \in AuditPayloads, key \in {"k1", "k2", NoKey}}

\* requests whose signature does not verify: made with another key, made for
\* another payload, truncated, with a character that is no hex digit, empty,
\* absent; and the digest in upper case, which verifies
OddlySignedRequests ==
    LET p == PayloadList[1]
        e == Sign(p).chars
    IN  {Request(sig, key, p, NoSignature, NoKey) :
            sig \in {Str(createHmac_digest(Secrets[2], JSON_stringify(p))),
                     Sign(PayloadList[3]), Str(SubSeq(e, 1, Len(e) - 1)),
                     Str([e EXCEPT ![1] = "g"]), Str(<<>>), NoSignature,
                     Str(toUpperCase(e))},
            key \in {"k1", NoKey, ""}}

\* requests carrying signature and key in the body, and requests without payload
BodyRequests ==
    LET p == PayloadList[1]
    IN  {Request(NoSignature, NoKey, p, sig, key) :
            sig \in {Sign(p), NotAString, Sign(PayloadList[3]), NoSignature},
            key \in {"k1", NoKey}}
        \cup {Request(Sign(p), key, NoPayload, NoSignature, NoKey) : key \in {"k1", NoKey}}

Requests == SignedRequests \cup OddlySignedRequests \cup BodyRequests

Json(status, json) == [status |-> status, body |-> json]
InternalError == Json(500, [error |-> "internal_error"])     \* lines 151-155

\* the checks with the key test first
postLogTransactions_checks_keyFirst(req) ==
    LET idempotencyKey  == IF req.keyHeader # NoKey THEN req.keyHeader
                           ELSE req.body.idempotencyKey
        signature == IF req.sigHeader # NoSignature THEN req.sigHeader
                     ELSE req.body.signature
        payload   == req.body.payload
        v == verifySignature(payload, signature)
    IN  IF payload = NoPayload
        THEN [response |-> Json(400, [error |-> "payload is required"])]
        ELSE IF idempotencyKey \in {NoKey, ""}
        THEN [response |-> Json(400, [error |-> "Idempotency-Key header required"])]
        ELSE IF v.threw THEN [response |-> InternalError]
        ELSE IF ~v.value
        THEN [response |-> Json(401, [error |-> "invalid signature"])]
        ELSE [response |-> Null, idempotencyKey |-> idempotencyKey,
              payload |-> payload, payloadHash |-> hashPayload(payload)]

(* lines 78-100: the handler up to the transaction.  Returns the response
   when the request is answered here; an error thrown here reaches the error
   handler through asyncHandler. *)
postLogTransactions_checks(req) ==
    LET signatureHeader == req.sigHeader
        idempotencyKey  == IF req.keyHeader # NoKey THEN req.keyHeader
                           ELSE req.body.idempotencyKey
        signature == IF signatureHeader # NoSignature THEN signatureHeader
                     ELSE req.body.signature
        payload   == req.body.payload
        v == verifySignature(payload, signature)
    IN  IF payload = NoPayload
        THEN [response |-> Json(400, [error |-> "payload is required"])]
        ELSE IF v.threw THEN [response |-> InternalError]
        ELSE IF ~v.value
        THEN [response |-> Json(401, [error |-> "invalid signature"])]
        ELSE IF idempotencyKey \in {NoKey, ""}
        THEN [response |-> Json(400, [error |-> "Idempotency-Key header required"])]
        ELSE [response |-> Null, idempotencyKey |-> idempotencyKey,
              payload |-> payload, payloadHash |-> hashPayload(payload)]

\* the audit upsert that overwrites the fields of an existing row
auditLog_upsert_overwrite(table, payload) ==
    LET row == [txnId |-> payload.members.txnId, userId |-> payload.members.userId,
                delta |-> payload.members.delta, actor |-> payload.members.actor,
                source |-> payload.members.source,
                reason |-> IF payload.members.reason = NoReason THEN "<null>"
                           ELSE payload.members.reason]
    IN  IF \E i \in 1..Len(table) : table[i].txnId = row.txnId
        THEN [i \in 1..Len(table) |-> IF table[i].txnId = row.txnId THEN row ELSE table[i]]
        ELSE Append(table, row)

\* lines 118-129: tx.auditLog.upsert({ where: { txnId }, create, update: {} })
auditLog_upsert(table, payload) ==
    LET row == [txnId |-> payload.members.txnId, userId |-> payload.members.userId,
                delta |-> payload.members.delta, actor |-> payload.members.actor,
                source |-> payload.members.source,
                reason |-> IF payload.members.reason = NoReason THEN "<null>"
                           ELSE payload.members.reason]
    IN  IF \E i \in 1..Len(table) : table[i].txnId = row.txnId
        THEN table
        ELSE Append(table, row)

\* the transaction without the unique index on key
postLogTransactions_transaction_noUnique(deliveries, audit, c) ==
    [webhookDelivery |-> Append(deliveries, [key |-> c.idempotencyKey,
                                             payloadHash |-> c.payloadHash]),
     auditLog |-> auditLog_upsert(audit, c.payload),
     response |-> Json(200, [accepted |-> TRUE, deduped |-> FALSE])]

(* lines 102-133 and 151-155: the transaction.  create fails on a key that
   is stored; an error thrown inside rolls the transaction back and is
   answered by the error handler. *)
postLogTransactions_transaction(deliveries, audit, c) ==
    LET existing == SelectSeq(deliveries, LAMBDA d : d.key = c.idempotencyKey)
    IN  IF existing = <<>>
        THEN [webhookDelivery |-> Append(deliveries, [key |-> c.idempotencyKey,
                                                      payloadHash |-> c.payloadHash]),
              auditLog |-> auditLog_upsert(audit, c.payload),
              response |-> Json(200, [accepted |-> TRUE, deduped |-> FALSE])]
        ELSE IF existing[1].payloadHash # c.payloadHash
        THEN [webhookDelivery |-> deliveries, auditLog |-> audit,
              response |-> InternalError]
        ELSE [webhookDelivery |-> deliveries, auditLog |-> audit,
              response |-> Json(200, [accepted |-> TRUE, deduped |-> TRUE])]

MaxPosts == 2      \* requests sent to the API in one run

IdlePost == [pc |-> "idle", request |-> Null, checks |-> Null, response |-> Null,
             arrived |-> 0, answered |-> 0]

Arrived  == Cardinality({r \in 1..MaxPosts : posts[r].pc # "idle"})
Answered == Cardinality({r \in 1..MaxPosts : posts[r].pc = "done"})

InitApi ==
    /\ NoNodes
    /\ NoClient
    /\ posts = [r \in 1..MaxPosts |-> IdlePost]
    /\ webhookDelivery = <<>>
    /\ auditLog = <<>>
    /\ checked = Null
    /\ store = [k \in {WalletKey(U1)} |-> Null]
    /\ calls = <<>>
    /\ buffer = NewProcessedTxnBuffer(DefaultSize)
    /\ balance = 0
    /\ result = Null
    /\ session = attachProfile(PROFILE_TEMPLATE)
    /\ luaResult = Null
    /\ storeResult = Null
    /\ lastCmd = Null
    /\ insertLog = <<>>
    /\ ticks = 0
    /\ startEntry = Null

ApiLeaves ==
    /\ UNCHANGED <<buffer, balance, result, session, luaResult, store, storeResult, calls,
                   lastCmd, insertLog, ticks, startEntry, checked>>
    /\ UNCHANGED nodeVars
    /\ UNCHANGED clientVars

\* a request arrives and its handler runs up to the transaction (lines 78-100)
Post(r) ==
    /\ posts[r].pc = "idle"
    /\ \A q \in 1..(r - 1) : posts[q].pc # "idle"
    /\ \E req \in Requests :
         LET c == postLogTransactions_checks(req)
         IN  posts' = [posts EXCEPT ![r] =
                 IF c.response # Null
                 THEN [pc |-> "done", request |-> req, checks |-> Null,
                       response |-> c.response, arrived |-> Arrived + 1,
                       answered |-> Answered + 1]
                 ELSE [pc |-> "tx", request |-> req, checks |-> c, response |-> Null,
                       arrived |-> Arrived + 1, answered |-> 0]]
    /\ UNCHANGED <<webhookDelivery, auditLog>>
    /\ ApiLeaves

\* the transaction of a handler runs and the handler answers (lines 102-133)
Transact(r) ==
    /\ posts[r].pc = "tx"
    /\ LET t == postLogTransactions_transaction(webhookDelivery, auditLog, posts[r].checks)
       IN  /\ webhookDelivery' = t.webhookDelivery
           /\ auditLog' = t.auditLog
           /\ posts' = [posts EXCEPT ![r].pc = "done", ![r].response = t.response,
                                     ![r].answered = Answered + 1]
    /\ ApiLeaves

NextApi ==
    \/ \E r \in 1..MaxPosts : Post(r)
    \/ \E r \in 1..MaxPosts : Transact(r)

SpecApi == InitApi /\ [][NextApi]_vars

\* the handlers that passed the checks of lines 85-98 and were answered
Accepted(r) == posts[r].checks # Null
Done(r) == posts[r].pc = "done"
KeyOf(r) == posts[r].checks.idempotencyKey
DeliveriesOf(key) == SelectSeq(webhookDelivery, LAMBDA d : d.key = key)
AuditRowsOf(txnId) == SelectSeq(auditLog, LAMBDA a : a.txnId = txnId)

\* r is the first request answered under its key
FirstOfKey(r) ==
    \A q \in 1..MaxPosts :
        (Accepted(q) /\ Done(q) /\ KeyOf(q) = KeyOf(r)) => posts[r].answered <= posts[q].answered

SameDelivery(a, b) ==
    /\ a # b /\ Accepted(a) /\ Accepted(b) /\ Done(a) /\ Done(b)
    /\ KeyOf(a) = KeyOf(b)
    /\ posts[a].checks.payload = posts[b].checks.payload
    /\ posts[a].answered < posts[b].answered

\* C11: when two correctly signed POSTs with the same Idempotency-Key and
\* the same payload have been answered, in whichever order their
\* transactions ran, there is exactly one delivery record for the key and
\* exactly one audit row for the txnId, the first answer (the first under
\* that key) is {accepted: true, deduped: false} and the second is
\* {accepted: true, deduped: true}.
WebhookDedup ==
    \A a, b \in 1..MaxPosts :
        (SameDelivery(a, b) /\ FirstOfKey(a)) =>
            /\ Len(DeliveriesOf(KeyOf(a))) = 1
            /\ Len(AuditRowsOf(posts[a].checks.payload.members.txnId)) = 1
            /\ posts[a].response = Json(200, [accepted |-> TRUE, deduped |-> FALSE])
            /\ posts[b].response = Json(200, [accepted |-> TRUE, deduped |-> TRUE])

\* two such POSTs ran concurrently: the one that arrived second was answered first
WebhookDedupWitness ==
    \E a, b \in 1..MaxPosts :
        /\ SameDelivery(a, b) /\ FirstOfKey(a)
        /\ posts[b].arrived < posts[a].arrived
        /\ posts[b].response.body.deduped

\* the key of handler r is stored with another payload hash
Conflicting(r) ==
    \E i \in 1..Len(webhookDelivery) :
        /\ webhookDelivery[i].key = KeyOf(r)
        /\ webhookDelivery[i].payloadHash # posts[r].checks.payloadHash

ConflictAnswered(r) == posts[r].pc = "tx" /\ posts'[r].pc = "done" /\ Conflicting(r)

\* C12: a correctly signed POST that reuses an Idempotency-Key stored with a
\* different payload hash is answered 409 {error: "Idempotency key conflict"},
\* and no delivery record and no audit row changes.
WebhookConflict ==
    [][\A r \in 1..MaxPosts :
          ConflictAnswered(r) =>
              /\ posts'[r].response = Json(409, [error |-> "Idempotency key conflict"])
              /\ UNCHANGED <<webhookDelivery, auditLog>>]_vars

\* what the handler does on such a request: the tables stay as they are and
\* the answer is the one of the error handler
WebhookConflictInternalError ==
    [][\A r \in 1..MaxPosts :
          ConflictAnswered(r) =>
              /\ posts'[r].response = InternalError
              /\ UNCHANGED <<webhookDelivery, auditLog>>]_vars

\* the request carries no Idempotency-Key, neither as header nor in the body
MissingKey(req) == req.keyHeader = NoKey /\ req.body.idempotencyKey = NoKey

SignatureOf(req) == IF req.sigHeader # NoSignature THEN req.sigHeader ELSE req.body.signature

\* the handler of slot r starts in this step, on a request without key
MissingKeyArrives(r) ==
    posts[r].pc = "idle" /\ posts'[r].pc # "idle" /\ MissingKey(posts'[r].request)

SignatureMatches(req) ==
    /\ SignatureOf(req).kind = "string"
    /\ toLowerCase(SignatureOf(req).chars)
          = createHmac_digest(Secrets[1], JSON_stringify(req.body.payload))

HasKey(req) ==
    (IF req.keyHeader # NoKey THEN req.keyHeader ELSE req.body.idempotencyKey) \notin {NoKey, ""}

\* the handler of slot r starts in this step, on a request with payload and
\* key whose signature is absent or is not the HMAC
BadSignatureArrives(r) ==
    /\ posts[r].pc = "idle" /\ posts'[r].pc # "idle"
    /\ posts'[r].request.body.payload # NoPayload
    /\ HasKey(posts'[r].request)
    /\ ~SignatureMatches(posts'[r].request)

\* C14: every POST with a payload and an Idempotency-Key whose signature is
\* absent or is not the HMAC of the payload is answered 401 and creates no
\* delivery record and no audit row, and only requests whose signature
\* verified reach the tables.
BadSignature401 ==
    [][/\ \A r \in 1..MaxPosts :
            BadSignatureArrives(r) =>
                /\ posts'[r].pc = "done"
                /\ posts'[r].response = Json(401, [error |-> "invalid signature"])
                /\ UNCHANGED <<webhookDelivery, auditLog>>
       /\ \A r \in 1..MaxPosts :
            (posts'[r].pc = "tx") => SignatureMatches(posts'[r].request)]_vars

\* what the handler guarantees on such a request: it is answered 401 or, by
\* the error handler, 500, it never reaches the transaction, and only
\* requests whose signature verified do
BadSignatureRejected ==
    [][/\ \A r \in 1..MaxPosts :
            BadSignatureArrives(r) =>
                /\ posts'[r].pc = "done"
                /\ posts'[r].response.status \in {401, 500}
                /\ posts'[r].response.status = 500 <=> SignatureOf(posts'[r].request).kind = "number"
                /\ UNCHANGED <<webhookDelivery, auditLog>>
       /\ \A r \in 1..MaxPosts :
            (posts'[r].pc = "tx") => SignatureMatches(posts'[r].request)]_vars

\* the fields of an audit row a request would write
AuditFields(payload) ==
    [txnId |-> payload.members.txnId, userId |-> payload.members.userId,
     delta |-> payload.members.delta, actor |-> payload.members.actor,
     source |-> payload.members.source,
     reason |-> IF payload.members.reason = NoReason THEN "<null>"
                ELSE payload.members.reason]

\* C16: there is at most one audit row per txnId, and a row that exists is
\* never changed or removed by a later accepted POST, whatever key and
\* field values that POST carries for the same txnId.
AuditCreateOnly ==
    [][/\ \A i, j \in 1..Len(auditLog') : auditLog'[i].txnId = auditLog'[j].txnId => i = j
       /\ Len(auditLog') >= Len(auditLog)
       /\ \A i \in 1..Len(auditLog) : auditLog'[i] = auditLog[i]]_vars

\* a POST under another key was accepted (deduped: false) with other field
\* values for a txnId that has a row, and the row is the one of the first POST
AuditCreateOnlyWitness ==
    \E a, b \in 1..MaxPosts :
        /\ Accepted(a) /\ Done(a) /\ Accepted(b) /\ Done(b)
        /\ posts[a].answered < posts[b].answered
        /\ KeyOf(a) # KeyOf(b)
        /\ posts[b].response = Json(200, [accepted |-> TRUE, deduped |-> FALSE])
        /\ posts[a].checks.payload.members.txnId = posts[b].checks.payload.members.txnId
        /\ AuditFields(posts[a].checks.payload) # AuditFields(posts[b].checks.payload)
        /\ auditLog = <<AuditFields(posts[a].checks.payload)>>

-----------------------------------------------------------------------------
(* Driver 7: the game nodes handling deliveries of one envelope (no player
   joins) together with the bot, which sends the same command through
   applyIdempotentTransaction and through the store client
   (updateEconomyProfile) any number of times. *)

BotApply ==
    /\ Apply(lastCmd, Clock(ticks), TimestampOf(lastCmd))
    /\ UNCHANGED ticks

NextReplay ==
    \/ \E n \in Nodes : Deliver(n) \/ PlayerRemoving(n)
    \/ \E t \in CommandTasks : LoadReturns(t) \/ Publish(t) \/ Log(t)
    \/ BotApply

SpecReplay == InitNodes /\ [][NextReplay]_vars

\* the handler of task t met a txnId its ring holds: it ran the push of
\* line 343 in this step and nothing was inserted
Replayed(t) ==
    /\ threads[t].pc \in {"idle", "load"}
    /\ threads'[t].pc \notin {"idle", "load"}
    /\ ~threads'[t].warned
    /\ insertLog' = insertLog

\* C17: an apply that finds the txnId in the ring (inserted = false,
\* processed = false) issues no store write, publishes no broadcast, sends
\* no audit POST and leaves the balance and the processed list as they were:
\* in the game script the handler ends without reaching broadcastEvent and
\* logToApi, in the store client the call returns without postDataStoreEntry.
ReplayNoEffect ==
    [][/\ \A t \in CommandTasks :
            Replayed(t) =>
                /\ threads'[t].pc = "done"
                /\ Wallet(U1)' = Wallet(U1)
                /\ published' = published
                /\ logged' = logged
       /\ (storeResult' # storeResult /\ ~storeResult'.processed) => store' = store
       /\ (result' # result /\ ~result'.processed) =>
             balance' = balance /\ listNewestFirst(buffer') = listNewestFirst(buffer)
       /\ (luaResult' # luaResult /\ ~luaResult'.inserted) =>
             session'.profile = session.profile]_vars

\* a node handled the envelope a second time without effect after its first
\* handling was published and logged, and the bot's second call of the store
\* client returned processed = false
ReplayNoEffectWitness ==
    /\ \E n \in Nodes :
         /\ threads[[node |-> n, kind |-> "command", no |-> 1]].pc = "done"
         /\ threads[[node |-> n, kind |-> "command", no |-> 2]].pc = "done"
         /\ ~threads[[node |-> n, kind |-> "command", no |-> 2]].warned
         /\ threads[[node |-> n, kind |-> "command", no |-> 2]].record # Null
    /\ Cardinality(published) = 1 /\ Cardinality(logged) = 1
    /\ storeResult # Null /\ ~storeResult.processed
    /\ store[WalletKey(U1)].version = 1

-----------------------------------------------------------------------------
(* Properties of applyCommand's handling of one envelope (drivers 4 and 7) *)

\* the handler of task t resumes from LoadProfileAsync in this step
LoadEnds(t) == threads[t].pc = "load" /\ threads'[t].pc # "load"

\* LoadProfileAsync can only yield nil to task t
NoProfileFor(t) ==
    \A out \in LoadProfileAsync(World(ActiveSessions, profiles, players), t,
                                ProfileKey(lastCmd.userId), lastCmd.userId) :
        out.profile = Null

\* C18: when LoadProfileAsync yields no profile to a command's handler, the
\* handler ends in that step without error (it warns), and no balance, no
\* processed list, no ActiveSessions entry, no broadcast and no audit POST
\* changes.
NotOwnerSilent ==
    [][\A t \in CommandTasks :
          (Gave_up(t) \/ (LoadEnds(t) /\ NoProfileFor(t))) =>
              /\ threads'[t] = [IdleTask EXCEPT !.pc = "done", !.warned = TRUE]
              /\ UNCHANGED <<ActiveSessions, profiles, players, published, logged,
                             insertLog>>]_vars

\* a node gave up on the envelope while the user's session stays with the
\* node the player is on, and nothing was applied, published or logged
NotOwnerSilentWitness ==
    \E t \in CommandTasks :
      /\ threads[t].pc = "done" /\ threads[t].warned
      /\ \E n \in Holders(U1) : n # t.node /\ players[n] = "present"
      /\ insertLog = <<>> /\ published = {} /\ logged = {}
      /\ Wallet(U1).balance = StartBalance

PublishedOf(t) == [topic   |-> "economy-events:" \o lastCmd.userId,
                   txnId   |-> threads[t].record.txnId,
                   balance |-> threads[t].record.balanceAfter]
LoggedOf(t) == [key   |-> <<"roblox", t.node, threads[t].record.txnId>>,
                txnId |-> threads[t].record.txnId]

\* PublishAsync / PostAsync failed for the record of task t in this step
PublishFails(t) ==
    threads[t].pc = "publish" /\ threads'[t].pc # "publish" /\ PublishedOf(t) \notin published'
PostFails(t) ==
    threads[t].pc = "log" /\ threads'[t].pc # "log" /\ LoggedOf(t) \notin logged'

\* the user's wallet holds the record of task t
Stands(t, wallet) ==
    /\ wallet.balance = threads[t].record.balanceAfter
    /\ \E i \in 1..Len(wallet.processed) : wallet.processed[i] = threads[t].record

-----------------------------------------------------------------------------
(* Driver 8: the game nodes handling deliveries of one envelope that is a
   well-formed command or one whose payload lacks delta (no player joins). *)

Malformed == Command(1, U1, NoDelta, "admin#1", "discord", NoReason)

InitEnvelopes == InitFleet(WellFormedMessages \cup {CommandMessage(Malformed)})

NextEnvelopes ==
    \/ \E n \in Nodes : Deliver(n) \/ PlayerRemoving(n)
    \/ \E t \in CommandTasks : LoadReturns(t) \/ Publish(t) \/ Log(t)

SpecEnvelopes == InitEnvelopes /\ [][NextEnvelopes]_vars

\* the handling of the envelope by task t ends in this step, normally or
\* with an error, and the handler had acquired the session for it
EndsOpportunistic(t) ==
    /\ threads[t].pc \notin {"done", "failed"}
    /\ threads'[t].pc \in {"done", "failed"}
    /\ threads'[t].releaseAfter

Released(n, userId) ==
    /\ ActiveSessions[n][userId] = Null
    /\ profiles[ProfileKey(userId)].owner # n

\* C20: when the handling of an envelope ends for which applyCommand
\* acquired the session (new txnId, replayed txnId, or a payload without
\* delta), the node has released the profile and has no ActiveSessions entry
\* for the user.
OpportunisticReleased ==
    [][\A t \in CommandTasks :
          EndsOpportunistic(t) => Released(t.node, lastCmd.userId)']_vars

\* the same for well-formed commands only
OpportunisticReleasedWellFormed ==
    [][\A t \in CommandTasks :
          (EndsOpportunistic(t) /\ lastCmd # Malformed) =>
              Released(t.node, lastCmd.userId)']_vars

\* a handler that acquired the session for an envelope without delta has
\* ended with an error and its node still holds the session
SessionLeftBehind ==
    \E t \in CommandTasks :
      /\ threads[t].pc = "failed" /\ threads[t].releaseAfter
      /\ ActiveSessions[t.node][U1] # Null /\ ActiveSessions[t.node][U1].active
      /\ profiles[ProfileKey(U1)].owner = t.node
      /\ players[t.node] = "absent"

-----------------------------------------------------------------------------
(* Properties of resident sessions (driver 4) *)

\* the player is resident on node n: onPlayerAdded attached the profile and
\* the session is held
Resident(n) ==
    /\ players[n] = "present"
    /\ ActiveSessions[n][U1] # Null
    /\ ActiveSessions[n][U1].kick /\ ActiveSessions[n][U1].active

\* a step of the command handler t
CommandStep(t) == threads'[t] # threads[t]

\* C21: while a player is resident on a node, no step of a command handler
\* of that node releases the player's session, whatever the interleaving of
\* applyCommand with onPlayerAdded, also for a command that began to acquire
\* the session before the player joined.
ResidentKept ==
    [][\A t \in CommandTasks :
          (Resident(t.node) /\ CommandStep(t)) => Resident(t.node)']_vars

\* the command handlers of node n that have started and not ended
InProgress(n) ==
    {t \in CommandTasks : t.node = n /\ threads[t].pc \in {"load", "publish", "log"}}

\* C22: of the command envelopes for one user received by one node, the
\* handling of the next starts only after the handling of the one before has
\* ended: at no time are two handlers of a node in progress, also while one
\* is suspended in the profile load, the publish or the audit POST.
SerializedPerUser == \A n \in Nodes : Cardinality(InProgress(n)) <= 1

-----------------------------------------------------------------------------
(* Driver 9: the game nodes receiving one message of any kind: a well-formed
   command, a command with delta 0 or without delta, an envelope of another
   type or without payload, a JSON number, or text that is no JSON. *)

ZeroDelta == Command(1, U1, 0, "admin#1", "discord", NoReason)

Messages ==
    WellFormedMessages
    \cup {CommandMessage(ZeroDelta), CommandMessage(Malformed),
          [json |-> "table", type |-> "economy.update", payload |-> ZeroDelta],
          [json |-> "table", type |-> "economy.command", payload |-> Null],
          [json |-> "number", type |-> Null, payload |-> Null],
          [json |-> "invalid", type |-> Null, payload |-> Null]}

InitIngress == InitFleet(Messages)

SpecIngress == InitIngress /\ [][NextEnvelopes]_vars

\* the message decodes to an economy.command whose payload has a non-empty
\* userId, a txnId and a non-zero integer delta
WellFormed(msg) ==
    /\ msg.json = "table"
    /\ msg.type = "economy.command"
    /\ msg.payload # Null
    /\ msg.payload.userId # ""
    /\ msg.payload.delta \notin {NoDelta, 0}

\* C23: a message that is not a well-formed economy.command changes nothing
\* (no profile load is started, no session, balance or processed list
\* changes, nothing is published or posted) and raises no error in the
\* subscription callback.
IngressValidation ==
    [][\A t \in CommandTasks :
          (CommandStep(t) /\ ~WellFormed(message)) =>
              /\ UNCHANGED <<ActiveSessions, profiles, loadJobs, published, logged>>
              /\ threads'[t].pc = "done"]_vars

\* what the callback does check: a message that is no JSON, has another
\* type or has no payload changes nothing and raises no error
IngressTypeCheck ==
    [][\A t \in CommandTasks :
          (CommandStep(t)
             /\ (message.json = "invalid"
                   \/ (message.json = "table"
                         /\ (message.type # "economy.command" \/ message.payload = Null)))) =>
              /\ UNCHANGED <<ActiveSessions, profiles, loadJobs, published, logged>>
              /\ threads'[t].pc = "done"]_vars

\* a command with delta 0 was applied, published and logged
ZeroDeltaApplied ==
    /\ message = CommandMessage(ZeroDelta)
    /\ \E i \in 1..Len(Wallet(U1).processed) : Wallet(U1).processed[i].delta = 0
    /\ Cardinality(published) = 1 /\ Cardinality(logged) = 1

-----------------------------------------------------------------------------
(* Driver 10: the fleet of driver 4 with its scheduling: the message reaches
   the callback of every subscribed node, once, and a handler that waits for
   LoadProfileAsync, PublishAsync or PostAsync is resumed.  Players join and
   leave as they like. *)

\* the first delivery of the message to node n
FirstDeliver(n) == threads[FirstCommandTask(n)].pc = "idle" /\ Deliver(n)

\* a step the platform schedules by itself.  No handler runs twice and no
\* step undoes another, so every behaviour ends in a state it stays in, and
\* fairness of this one action holds exactly when no delivery and no
\* handler is left waiting there
Scheduled ==
    \/ \E n \in Nodes : FirstDeliver(n)
    \/ \E t \in Tasks : LoadReturns(t) \/ JoinLoadReturns(t) \/ Publish(t) \/ Log(t)

\* every node receives the message once
NextNodesOnce ==
    \/ \E n \in Nodes : FirstDeliver(n) \/ PlayerAdded(n) \/ PlayerRemoving(n)
    \/ \E t \in Tasks : LoadReturns(t) \/ JoinLoadReturns(t) \/ Publish(t) \/ Log(t)

SpecNodesFair == InitNodes /\ [][NextNodesOnce]_vars /\ WF_vars(Scheduled)

\* the txnId of the command is in the user's processed list
Applied ==
    \E i \in 1..Len(Wallet(U1).processed) : Wallet(U1).processed[i].txnId = lastCmd.txnId

\* C24: every well-formed command published to the topic is eventually
\* applied by some node, also when nodes that received it could not acquire
\* the user's session and dropped it.
EventuallyApplied == <>Applied

\* every node has received the message and dropped it, no handler is in
\* progress, and the command is not applied
DroppedEverywhere ==
    /\ DeliveredEverywhere /\ Quiet
    /\ \A n \in Nodes : threads[FirstCommandTask(n)].warned
    /\ ~Applied

-----------------------------------------------------------------------------
(* Driver 11: the bot's handleTransactionCommand next to the game nodes.
   The bot publishes the command to the topic, the nodes receive it, and
   the bot polls the user's data store entry until it finds the record or
   the deadline passes. *)

\* waitForTransaction, line 94: timeoutMs = 10_000; line 101: wait(500)
timeoutMs == 10000
pollInterval == 500

(* The data store "EconomyWallet" (part_000 line 354, part_001 line 221):
   the entries Open Cloud reads and writes and the profiles ProfileService
   saves share one key space.  A saved profile is taken to be readable as
   the entry's data. *)
EconomyWallet ==
    [k \in DOMAIN store \cup DOMAIN profiles |->
        IF k \in DOMAIN profiles
        THEN [data |-> profiles[k].data, version |-> 1]
        ELSE store[k]]

\* part_000 lines 600-602: readEconomyProfile reads the entry wallet:{userId}
readEconomyProfile(userId) == getDataStoreEntry(EconomyWallet, WalletKey(userId))

\* bot line 98: profile.data?.processed?.find(entry => entry.txnId === txnId)
findRecord(profile, txnId) ==
    IF profile.data = Null THEN Null
    ELSE LET hits == SelectSeq(profile.data.processed, LAMBDA r : r.txnId = txnId)
         IN  IF Len(hits) = 0 THEN Null ELSE hits[1]

\* no reply edited in yet
NoReply == ""

Polling == [pc |-> "poll", elapsed |-> 0, reply |-> NoReply, publishes |-> 1]

\* bot lines 126-127 and 151-154: publishDiscordCommand returns, or throws
\* and the catch replies
BotPublish ==
    /\ bot = Null
    /\ \E ok \in BOOLEAN :
         bot' = IF ok THEN Polling
                ELSE [pc |-> "done", elapsed |-> 0, publishes |-> 0,
                      reply |-> "Failed to dispatch transaction"]
    /\ UNCHANGED <<buffer, balance, result, session, luaResult, store, storeResult,
                   calls, lastCmd, insertLog, ticks, startEntry, message, http>>
    /\ UNCHANGED <<ActiveSessions, profiles, loadJobs, threads, players, published,
                   logged>>
    /\ UNCHANGED apiVars

(* bot lines 94-105 and 128-154: one turn of waitForTransaction's loop and
   what handleTransactionCommand does when it returns or throws.  The read
   returns the entry or throws (the request failed after its retries). *)
BotPoll ==
    /\ bot # Null
    /\ bot.pc = "poll"
    /\ \E readOk \in BOOLEAN :
         LET found == findRecord(readEconomyProfile(lastCmd.userId), lastCmd.txnId)
         IN  bot' = IF ~(bot.elapsed < timeoutMs)
                    THEN [bot EXCEPT !.pc = "done", !.reply =
                            "Confirmation not received yet"]
                    ELSE IF ~readOk
                    THEN [bot EXCEPT !.pc = "done", !.reply =
                            "Failed to dispatch transaction"]
                    ELSE IF found # Null
                    THEN [bot EXCEPT !.pc = "done", !.reply = "Transaction confirmed"]
                    ELSE [bot EXCEPT !.elapsed = @ + pollInterval]
    /\ UNCHANGED <<buffer, balance, result, session, luaResult, store, storeResult,
                   calls, lastCmd, insertLog, ticks, startEntry, message, http>>
    /\ UNCHANGED <<ActiveSessions, profiles, loadJobs, threads, players, published,
                   logged>>
    /\ UNCHANGED apiVars

\* the command was published to the topic
Dispatched == bot # Null /\ bot.publishes > 0

\* the nodes receive the message once the bot has published it
NextBot ==
    \/ BotPublish
    \/ BotPoll
    \/ \E n \in Nodes : (Dispatched /\ FirstDeliver(n)) \/ PlayerRemoving(n)
    \/ \E t \in CommandTasks : LoadReturns(t) \/ Publish(t) \/ Log(t)

SpecBot == InitNodes /\ [][NextBot]_vars

\* the profile saved in the data store holds the command's record
Persisted ==
    \E i \in 1..Len(profiles[ProfileKey(lastCmd.userId)].data.processed) :
       profiles[ProfileKey(lastCmd.userId)].data.processed[i].txnId = lastCmd.txnId

\* the bot's read of the entry returns in this step
ReadReturns ==
    /\ bot # Null /\ bot.pc = "poll" /\ bot.elapsed < timeoutMs
    /\ bot' # bot
    /\ bot'.reply # "Failed to dispatch transaction"

\* C25: once a node has applied the command and the profile is persisted,
\* the bot's poll of the user's store entry finds the record and the bot
\* replies "Transaction confirmed": a read that returns after the profile
\* was persisted ends the poll with that reply.
ConfirmationObservesLedger ==
    [][(Persisted /\ ReadReturns) => bot'.reply = "Transaction confirmed"]_vars

\* the command is applied and persisted, and the bot has given up waiting
PersistedUnconfirmed ==
    /\ Persisted
    /\ bot # Null /\ bot.reply = "Confirmation not received yet"

\* C26: after publishDiscordCommand has succeeded, handleTransactionCommand
\* ends with one of two replies, "Transaction confirmed" or, once the
\* deadline has passed, "Confirmation not received yet"; it never reports
\* the dispatch as failed and never publishes a second command.
BoundedConfirmationPoll ==
    Dispatched =>
       /\ bot.reply \in {NoReply, "Transaction confirmed",
                         "Confirmation not received yet"}
       /\ bot.reply = "Confirmation not received yet" => ~(bot.elapsed < timeoutMs)
       /\ bot.publishes = 1
       /\ bot.pc = "done" <=> bot.reply # NoReply

\* the command was published, and the bot replied that the dispatch failed
DispatchedReportedFailed ==
    Dispatched /\ bot.pc = "done" /\ bot.reply = "Failed to dispatch transaction"

\* what does hold after the publish: one publish, and a reply ends the handler
OnePublishOneReply ==
    Dispatched => (bot.publishes = 1 /\ (bot.pc = "done" <=> bot.reply # NoReply))

-----------------------------------------------------------------------------
(* Driver 12: one call of the Open Cloud client (readEconomyProfile,
   publishDiscordCommand or applyEconomyTransaction) against a server that
   answers every fetch as it likes.  A step is one fetch and everything the
   client does with the response up to its next fetch or the call's end. *)

\* part_000 line 425: backoffMs = options.backoffMs ?? 250
backoffMs == 250

\* line 413: Math.random() * 100, some values of [0, 100)
Jitters == {0, 50, 99}

\* line 454: headers.get("Retry-After") is null
NoHeader == -1
\* the largest Retry-After the server sends, in seconds
MaxRetryAfter == 2
RetryAfters == {NoHeader} \cup 1..MaxRetryAfter

\* body?.code of an error response without a code in its body
NoCode == 0

Response(status, code, retryAfter) ==
    [status |-> status, code |-> code, retryAfter |-> retryAfter]

Responses ==
    {Response(s, NoCode, NoHeader) : s \in {200, 204}}
    \cup {Response(s, c, NoHeader) : s \in {400, 404}, c \in {NoCode, 1, 11}}
    \cup {Response(s, NoCode, ra) : s \in {429, 500}, ra \in RetryAfters}

\* response.ok
Ok(status) == status \in 200..299

(* request, lines 452-471: what the function handed to withBackoff does with
   a response: the delay it awaits, and whether it throws (and the code of
   the error it throws) *)
request_fn(response) ==
    IF response.status = 429 \/ response.status >= 500
    THEN [threw |-> TRUE, code |-> NoCode,
          delayMs |-> IF response.retryAfter # NoHeader
                         /\ response.retryAfter * 1000 # 0
                      THEN response.retryAfter * 1000 ELSE 0]
    ELSE IF ~Ok(response.status)
    THEN [threw |-> TRUE, code |-> response.code, delayMs |-> 0]
    ELSE [threw |-> FALSE, code |-> NoCode, delayMs |-> 0]

\* withBackoff, line 413: opts.baseDelay * 2 ** attempt + Math.random() * 100
withBackoff_waitMs(baseDelay, attempt, jitter) == baseDelay * 2 ^ attempt + jitter

\* request, line 474: retries: req.retryable === false ? 0 : maxRetries
request_retries(retryable) == IF retryable THEN maxRetries ELSE 0

\* the entry a 200 response carries
FoundEntry == [data |-> SeedEntry(1).data, version |-> [v |-> SeedEntry(1).version]]
NoEntry == [data |-> Null, version |-> Null]

\* getDataStoreEntry, lines 499-505: the response request returned
getDataStoreEntry_try(response) ==
    IF response.status = 204 THEN [raised |-> FALSE, entry |-> NoEntry]
    ELSE [raised |-> FALSE, entry |-> FoundEntry]

\* with a catch that rethrows everything
getDataStoreEntry_catch_rethrow(code) == [raised |-> TRUE, entry |-> Null]

\* getDataStoreEntry, lines 506-512: the error request threw
getDataStoreEntry_catch(code) ==
    IF code = 1 THEN [raised |-> FALSE, entry |-> NoEntry]
    ELSE [raised |-> TRUE, entry |-> Null]

Ops == {"read", "publish", "update"}

(* The call's state: the request in progress (method, retryable, attempt of
   its withBackoff, fetches made for it), the iteration of
   updateEconomyProfile's withBackoff and the iterations run, the last
   response, the time waited between that response and the next fetch, and
   the outcome. *)
Call(op) ==
    [op |-> op, pc |-> "fetch",
     method |-> IF op = "publish" THEN "POST" ELSE "GET", retryable |-> TRUE,
     attempt |-> 0, fetches |-> 0, iteration |-> 0, iterations |-> 1,
     last |-> Null, retried |-> FALSE, waitMs |-> 0,
     raised |-> FALSE, entry |-> Null]

\* the call ends
Returns(h, entry) == [h EXCEPT !.pc = "done", !.entry = entry]
Raises(h) == [h EXCEPT !.pc = "done", !.raised = TRUE]

(* updateEconomyProfile, lines 534-580 and withBackoff: the iteration threw
   after the request had delayed for delayMs; it runs again from the read
   unless the iterations are used up *)
IterationThrows(h, delayMs, jitter) ==
    IF withBackoff_retry(h.iteration, maxRetries)
    THEN [h EXCEPT !.method = "GET", !.retryable = TRUE, !.attempt = 0,
                   !.fetches = 0, !.iteration = @ + 1, !.iterations = @ + 1,
                   !.waitMs = delayMs + withBackoff_waitMs(backoffMs, h.iteration, jitter)]
    ELSE Raises(h)

\* lines 568-569: postDataStoreEntry, a request with retryable: false
StartWrite(h) ==
    [h EXCEPT !.method = "POST", !.retryable = FALSE, !.attempt = 0, !.fetches = 0]

(* what the caller of request does when request returns the response:
   getDataStoreEntry (lines 499-505), publishMessage (lines 588-597),
   updateEconomyProfile (lines 536-579; duplicate: the command is already in
   the entry's list and nothing is written) *)
RequestReturns(h, response, duplicate) ==
    IF h.op = "read" THEN Returns(h, getDataStoreEntry_try(response).entry)
    ELSE IF h.op = "publish" THEN Returns(h, Null)
    ELSE IF h.method = "POST" THEN Returns(h, Null)
    ELSE IF duplicate THEN Returns(h, Null)
    ELSE StartWrite(h)

\* what the caller of request does when request throws an error with code
RequestThrows(h, code, delayMs, duplicate, jitter) ==
    IF h.op = "read"
    THEN IF getDataStoreEntry_catch(code).raised THEN Raises(h)
         ELSE Returns(h, getDataStoreEntry_catch(code).entry)
    ELSE IF h.op = "publish" THEN Raises(h)
    ELSE IF h.method = "POST" THEN IterationThrows(h, delayMs, jitter)
    ELSE IF getDataStoreEntry_catch(code).raised THEN IterationThrows(h, delayMs, jitter)
    ELSE IF duplicate THEN Returns(h, Null)
    ELSE StartWrite(h)

(* request with withBackoff, lines 403-420 and 451-477: one fetch answered
   with response *)
request_fetch(h, response, duplicate, jitter) ==
    LET f  == request_fn(response)
        h1 == [h EXCEPT !.fetches = @ + 1, !.last = response, !.retried = FALSE,
                        !.waitMs = 0]
    IN  IF ~f.threw THEN RequestReturns(h1, response, duplicate)
        ELSE IF withBackoff_retry(h.attempt, request_retries(h.retryable))
        THEN [h1 EXCEPT !.attempt = @ + 1, !.retried = TRUE,
                        !.waitMs = f.delayMs
                                   + withBackoff_waitMs(backoffMs, h.attempt, jitter)]
        ELSE RequestThrows(h1, f.code, f.delayMs, duplicate, jitter)

InitClient ==
    /\ NoNodes
    /\ NoApi
    /\ bot = Null
    /\ http \in {Call(op) : op \in Ops}
    /\ store = [k \in {WalletKey(U1)} |-> Null]
    /\ calls = <<>>
    /\ buffer = NewProcessedTxnBuffer(DefaultSize)
    /\ balance = 0
    /\ result = Null
    /\ session = attachProfile(PROFILE_TEMPLATE)
    /\ luaResult = Null
    /\ storeResult = Null
    /\ lastCmd = Null
    /\ insertLog = <<>>
    /\ ticks = 0
    /\ startEntry = Null

Fetch ==
    /\ http.pc = "fetch"
    /\ \E response \in Responses, duplicate \in BOOLEAN, jitter \in Jitters :
          http' = request_fetch(http, response, duplicate, jitter)
    /\ UNCHANGED <<buffer, balance, result, session, luaResult, store, storeResult,
                   calls, lastCmd, insertLog, ticks, startEntry, bot>>
    /\ UNCHANGED nodeVars
    /\ UNCHANGED apiVars

NextClient == Fetch

SpecClient == InitClient /\ [][NextClient]_vars

\* C27: the attempts of one publish, one store read or one
\* applyEconomyTransaction call are capped at maxRetries: a request is
\* fetched at most maxRetries times and updateEconomyProfile runs at most
\* maxRetries read-modify-write iterations.
RetryBudget ==
    /\ http.fetches <= maxRetries
    /\ http.iterations <= maxRetries

\* what the code keeps to: maxRetries retries after the first attempt
RetriesAfterFirst ==
    /\ http.fetches <= maxRetries + 1
    /\ http.iterations <= maxRetries + 1
    /\ ~http.retryable => http.fetches <= 1

\* a request was fetched once more than maxRetries times
FetchedBeyondBudget == http.fetches = maxRetries + 1
\* an applyEconomyTransaction call is in its iteration after the maxRetries-th
IteratedBeyondBudget == http.op = "update" /\ http.iterations = maxRetries + 1

\* a request is about to be fetched again after a 429 or 5xx response
RetryPending ==
    /\ http.pc = "fetch" /\ http.retried
    /\ (http.last.status = 429 \/ http.last.status >= 500)

\* the computed wait before retry k = http.attempt - 1, for some jitter
ComputedWaits == {backoffMs * 2 ^ (http.attempt - 1) + j : j \in 0..100}

\* C28: when a 429 or 5xx response carries Retry-After: n and attempts
\* remain, the wait before the next attempt is n seconds instead of the
\* computed exponential wait, not in addition to it; without the header the
\* wait before retry k is baseDelay * 2^k plus a jitter in [0, 100] ms.
RetryAfterOverrides ==
    RetryPending =>
       IF http.last.retryAfter # NoHeader
       THEN http.waitMs = http.last.retryAfter * 1000
       ELSE http.waitMs \in ComputedWaits

\* what the code does: the header's delay comes on top of the computed wait
RetryAfterAdds ==
    RetryPending =>
       IF http.last.retryAfter # NoHeader
       THEN http.waitMs - http.last.retryAfter * 1000 \in ComputedWaits
       ELSE http.waitMs \in ComputedWaits

\* a retry after Retry-After: n that waits longer than n seconds
WaitedLonger ==
    /\ RetryPending
    /\ http.last.retryAfter # NoHeader
    /\ http.waitMs > http.last.retryAfter * 1000

\* the last response is a 4xx other than 429
PermanentFailure ==
    /\ http.last # Null
    /\ http.last.status \in 400..499 /\ http.last.status # 429

\* the call ended without raising although its last response was an error:
\* getDataStoreEntry's catch took it for a missing entry (code 1)
TakenForMissing == http.method = "GET" /\ http.last.code = 1

\* C29: a request answered with a 4xx status other than 429 is not attempted
\* again and the error is surfaced, inside request and in the loop of
\* updateEconomyProfile, where only a version conflict (code 11) causes
\* another iteration.
PermanentNotRetried ==
    (PermanentFailure /\ ~TakenForMissing) =>
       \/ http.pc = "done" /\ http.raised
       \/ http.pc = "fetch" /\ http.op = "update" /\ ~http.retried
          /\ http.last.code = 11 /\ http.iteration > 0 /\ http.fetches = 0

\* a request answered 4xx is about to be fetched again
PermanentRetried == PermanentFailure /\ http.pc = "fetch" /\ http.retried

\* updateEconomyProfile runs another iteration after a write was rejected
\* with a code other than 11
IteratesOnAnyError ==
    /\ PermanentFailure /\ http.op = "update" /\ http.pc = "fetch"
    /\ http.method = "GET" /\ http.fetches = 0 /\ http.iteration > 0
    /\ http.last.code # 11

\* the store's last answer to a read says the entry does not exist
SignalsAbsence ==
    \/ http.last.status = 204
    \/ PermanentFailure /\ http.last.code = 1

\* C30: readEconomyProfile for a user with no stored entry returns
\* {data: null} with no version and does not raise, whether the store
\* signals absence with status 204 or with an entry-not-found error
\* response; other failures are raised.
MissingEntryNotError ==
    (http.op = "read" /\ http.pc = "done") =>
       /\ SignalsAbsence => (~http.raised /\ http.entry = NoEntry)
       /\ (~SignalsAbsence /\ ~Ok(http.last.status)) => http.raised
       /\ http.last.status = 200 => (~http.raised /\ http.entry = FoundEntry)

\* a read that ended on an entry-not-found error response
MissingEntryWitness ==
    /\ http.op = "read" /\ http.pc = "done"
    /\ PermanentFailure /\ http.last.code = 1
    /\ ~http.raised /\ http.entry.data = Null

-----------------------------------------------------------------------------
(* Driver 13: applyEconomyTransaction calls against a store whose answer to
   a write may fail to arrive.  A write request is processed by the store
   (and committed when the version matches) or fails before it; the
   response reaches the caller or is lost, and the caller sees an error
   whenever it gets no success response. *)

\* one call, with what it has done so far: reads made, writes sent, the
\* attempt its last read was made in, and whether a write of it was
\* committed without the call seeing the success
LossyCall(command) ==
    [pc |-> "read", command |-> command, attempt |-> 0,
     current |-> Null, computed |-> Null, result |-> Null,
     reads |-> 0, sent |-> 0, readAt |-> 0, lost |-> FALSE]

InitLossy ==
    /\ NoNodes
    /\ NoClient
    /\ NoApi
    /\ startEntry \in {Null, SeedEntry(1)}
    /\ store = [k \in {WalletKey(U1)} |-> startEntry]
    /\ \E cmds \in [Callers -> Commands] :
         calls = [c \in Callers |-> LossyCall(cmds[c])]
    /\ buffer = NewProcessedTxnBuffer(DefaultSize)
    /\ balance = 0
    /\ result = Null
    /\ session = attachProfile(PROFILE_TEMPLATE)
    /\ luaResult = Null
    /\ storeResult = Null
    /\ lastCmd = Null
    /\ insertLog = <<>>
    /\ ticks = 0

\* the iteration runs again from the write, with the entry it read before
updateEconomyProfile_onError_resend(call) ==
    IF withBackoff_retry(call.attempt, maxRetries)
    THEN [call EXCEPT !.attempt = @ + 1]
    ELSE [call EXCEPT !.pc = "failed"]

(* updateEconomyProfile, lines 568-576 and withBackoff, lines 408-418: the
   write threw; the error is rethrown and the function runs again from its
   read unless the attempts are used up *)
updateEconomyProfile_onError(call) ==
    IF withBackoff_retry(call.attempt, maxRetries)
    THEN [call EXCEPT !.pc = "read", !.attempt = @ + 1,
                      !.current = Null, !.computed = Null]
    ELSE [call EXCEPT !.pc = "failed"]

\* lines 536-566: the read, the rebuild of the ring and the apply
LossyRead(c) ==
    /\ calls[c].pc = "read"
    /\ LET command == calls[c].command
           current == getDataStoreEntry(store, WalletKey(command.userId))
           comp    == updateEconomyProfile_compute(current, command, Clock(ticks))
           res     == [balance |-> comp.balance, processed |-> comp.processed,
                       record |-> comp.record, profile |-> comp.profile]
           read    == [calls[c] EXCEPT !.current = current, !.reads = @ + 1,
                                       !.readAt = calls[c].attempt]
       IN  calls' = [calls EXCEPT ![c] =
                       IF comp.write
                       THEN [read EXCEPT !.pc = "write", !.computed = res]
                       ELSE [read EXCEPT !.pc = "done", !.result = res]]
    /\ ticks' = ticks + 1
    /\ UNCHANGED <<buffer, balance, result, session, luaResult, store, storeResult,
                   lastCmd, insertLog, startEntry>>
    /\ UNCHANGED nodeVars
    /\ UNCHANGED clientVars
    /\ UNCHANGED apiVars

(* lines 568-578: the write is sent once (retryable: false).  The store
   processes it (up) or fails before; the response arrives (acked) or not. *)
LossyWrite(c) ==
    /\ calls[c].pc = "write"
    /\ \E up \in BOOLEAN, acked \in BOOLEAN :
         LET command   == calls[c].command
             w         == postDataStoreEntry(store, WalletKey(command.userId),
                                             calls[c].computed.profile,
                                             calls[c].current.version)
             committed == up /\ w.ok
             sent      == [calls[c] EXCEPT !.sent = @ + 1]
         IN  /\ store' = IF committed THEN w.store ELSE store
             /\ insertLog' = IF committed
                             THEN Append(insertLog, [txnId |-> command.txnId,
                                                     delta |-> command.delta])
                             ELSE insertLog
             /\ calls' = [calls EXCEPT ![c] =
                            IF committed /\ acked
                            THEN [sent EXCEPT !.pc = "done", !.result = sent.computed]
                            ELSE updateEconomyProfile_onError(
                                    [sent EXCEPT !.lost = @ \/ committed])]
    /\ UNCHANGED <<buffer, balance, result, session, luaResult, storeResult,
                   lastCmd, ticks, startEntry>>
    /\ UNCHANGED nodeVars
    /\ UNCHANGED clientVars
    /\ UNCHANGED apiVars

NextLossy == \E c \in Callers : LossyRead(c) \/ LossyWrite(c)

SpecLossy == InitLossy /\ [][NextLossy]_vars

\* the persisted processed list of U1
Persistent ==
    IF store[WalletKey(U1)] = Null THEN <<>> ELSE store[WalletKey(U1)].data.processed

Stored(txnId) == \E i \in 1..Len(Persistent) : Persistent[i].txnId = txnId

\* C31: whenever applyEconomyTransaction ends by raising an error, the
\* persisted profile is the one that was there before the call: its
\* processed list does not contain the command's txnId, and its balance is
\* unchanged (when every call raised, the entry is the one they started on).
FailedLeavesStore ==
    /\ \A c \in Callers :
         (calls[c].pc = "failed" /\ DistinctTxnIds) => ~Stored(calls[c].command.txnId)
    /\ (\A c \in Callers : calls[c].pc = "failed") => store[WalletKey(U1)] = startEntry

\* a call raised, and its command is in the persisted list
FailedButStored ==
    \E c \in Callers :
       /\ calls[c].pc = "failed" /\ DistinctTxnIds
       /\ Stored(calls[c].command.txnId)

\* a call that raised without any of its writes having been committed left
\* no record of its command
FailedUncommittedLeavesStore ==
    \A c \in Callers :
       (calls[c].pc = "failed" /\ ~calls[c].lost /\ DistinctTxnIds)
          => ~Stored(calls[c].command.txnId)

\* the number of writes of txnId the store committed
RECURSIVE CommittedIn(_, _)
CommittedIn(log, txnId) ==
    IF Len(log) = 0 THEN 0
    ELSE (IF log[Len(log)].txnId = txnId THEN 1 ELSE 0)
         + CommittedIn(SubSeq(log, 1, Len(log) - 1), txnId)

StoredRecord(txnId) ==
    Persistent[CHOOSE i \in 1..Len(Persistent) : Persistent[i].txnId = txnId]

\* call c has returned the stored record of its command with processed = false
ReturnedStored(c) ==
    /\ calls[c].pc = "done"
    /\ ~calls[c].result.processed
    /\ Stored(calls[c].command.txnId)
    /\ calls[c].result.record = StoredRecord(calls[c].command.txnId)

Ended(c) == calls[c].pc \in {"done", "failed"}

\* C38: if the store committed the write of a call but the call observed a
\* failure, the next iteration re-reads the profile, finds the txnId and
\* issues no second write: the delta is applied to the persisted balance
\* exactly once and the call returns the stored record with processed = false
\* (checked where each such call ends, on an entry that existed at the start).
LostAckRepaired ==
    [][\A c \in Callers :
         (calls'[c].lost /\ DistinctTxnIds /\ startEntry # Null
            /\ ~Ended(c) /\ Ended(c)') =>
            /\ CommittedIn(insertLog', calls[c].command.txnId) = 1
            /\ ReturnedStored(c)']_vars

\* the same for the calls that had an iteration left when the response was
\* lost
LostAckRepairedBeforeLast ==
    [][\A c \in Callers :
         (calls'[c].lost /\ DistinctTxnIds /\ startEntry # Null
            /\ ~Ended(c) /\ calls'[c].pc = "done") =>
            /\ CommittedIn(insertLog', calls[c].command.txnId) = 1
            /\ ReturnedStored(c)']_vars

\* a call ended by raising after the store had committed its write
LostAckRaised ==
    \E c \in Callers :
       /\ calls[c].lost /\ DistinctTxnIds /\ startEntry # Null
       /\ calls[c].pc = "failed" /\ Stored(calls[c].command.txnId)

\* a call whose committed write was not acknowledged has returned the
\* stored record
LostAckReturned ==
    \E c \in Callers : calls[c].lost /\ DistinctTxnIds /\ ReturnedStored(c)

\* a call whose committed write was not acknowledged wrote a second time
WroteTwice ==
    \E c \in Callers :
       DistinctTxnIds /\ CommittedIn(insertLog, calls[c].command.txnId) > 1

\* call c sends a write in this step
Sends(c) == calls'[c].sent = calls[c].sent + 1

\* C39: every write sent by updateEconomyProfile carries the version returned
\* by the read made in the same loop iteration and a profile computed from
\* that read, and a write is sent at most once per iteration: a stale body or
\* version is never sent again after a failure.
NoBlindRewrite ==
    [][\A c \in Callers :
         Sends(c) =>
            /\ calls[c].readAt = calls[c].attempt
            /\ calls[c].reads = calls[c].attempt + 1
            /\ calls[c].sent = calls[c].attempt
            /\ calls[c].current # Null /\ calls[c].computed # Null]_vars

\* a call sends the write of a later iteration, after a failed one
NoBlindRewriteWitness ==
    \E c \in Callers :
       /\ calls[c].sent > 1 /\ calls[c].sent = calls[c].attempt + 1
       /\ calls[c].readAt = calls[c].attempt

-----------------------------------------------------------------------------
(* Driver 14: GET /log/transactions on an audit table of some size, with a
   limit and a userId query parameter of any form. *)

\* the largest audit table queried
MaxRows == 102

\* apps/api line 140: Math.min(..., 100), and the default of limit
QueryCap == 100
DefaultLimit == 20

NoParam == [kind |-> "absent", chars |-> <<>>]

IsDigit(c) == \E i \in 1..10 : HexChars[i] = c
DigitVal(c) == (CHOOSE i \in 1..10 : HexChars[i] = c) - 1

RECURSIVE DigitsValue(_)
DigitsValue(chars) ==
    IF Len(chars) = 0 THEN 0
    ELSE 10 * DigitsValue(SubSeq(chars, 1, Len(chars) - 1)) + DigitVal(chars[Len(chars)])

AllDigits(chars) == Len(chars) > 0 /\ \A i \in 1..Len(chars) : IsDigit(chars[i])

IntValue(n) == [kind |-> "int", value |-> n]
FloatValue == [kind |-> "float", value |-> 0]
NaN == [kind |-> "NaN", value |-> 0]

(* Number(string): the empty string is 0, a decimal integer with an optional
   sign is that integer, digits.digits is a number that is no integer, and
   anything else is NaN *)
Number(chars) ==
    LET body == IF Len(chars) > 0 /\ chars[1] = "-" THEN Tail(chars) ELSE chars
        sign == IF Len(chars) > 0 /\ chars[1] = "-" THEN -1 ELSE 1
    IN  IF Len(chars) = 0 THEN IntValue(0)
        ELSE IF AllDigits(body) THEN IntValue(sign * DigitsValue(body))
        ELSE IF \E d \in 2..(Len(body) - 1) :
                   /\ body[d] = "."
                   /\ AllDigits(SubSeq(body, 1, d - 1))
                   /\ AllDigits(SubSeq(body, d + 1, Len(body)))
                   /\ DigitsValue(SubSeq(body, d + 1, Len(body))) # 0
        THEN FloatValue
        ELSE NaN

\* Math.min(x, cap), for a non-integer x below the cap
Math_min(x, cap) ==
    IF x.kind = "int" THEN IntValue(IF x.value < cap THEN x.value ELSE cap)
    ELSE x

\* line 140: Math.min(Number(req.query.limit ?? 20), 100)
getLogTransactions_limit(param) ==
    Math_min(IF param.kind = "absent" THEN IntValue(DefaultLimit) ELSE Number(param.chars),
             QueryCap)

\* line 141: req.query.userId ? String(req.query.userId) : undefined
getLogTransactions_userId(param) ==
    IF param.kind = "absent" \/ Len(param.chars) = 0 THEN NoParam ELSE param

(* prisma.auditLog.findMany({ where, orderBy: { createdAt: "desc" }, take }):
   a positive take counts from the start of the ordered list, a negative one
   from its end; a take that is no integer is rejected.  The table is kept in
   the order of createdAt. *)
findMany(table, userId, take, lenient) ==
    LET matching == IF userId.kind = "absent" THEN table
                    ELSE SelectSeq(table, LAMBDA row : row.userId = userId.chars)
        ordered  == Reverse(matching)
        n        == Len(ordered)
    IN  IF take.kind = "NaN" /\ lenient THEN [threw |-> FALSE, rows |-> ordered]
        ELSE IF take.kind # "int" THEN [threw |-> TRUE, rows |-> <<>>]
        ELSE IF take.value >= 0
        THEN [threw |-> FALSE,
              rows |-> SubSeq(ordered, 1, IF take.value < n THEN take.value ELSE n)]
        ELSE [threw |-> FALSE,
              rows |-> SubSeq(ordered, IF -take.value < n THEN n + take.value + 1 ELSE 1, n)]

\* lines 137-149 and the error handler, lines 151-155
getLogTransactions(table, query, lenient) ==
    LET found == findMany(table, getLogTransactions_userId(query.userId),
                          getLogTransactions_limit(query.limit), lenient)
    IN  IF found.threw THEN InternalError ELSE Json(200, found.rows)

\* the audit rows of n deliveries, of two users in turn
AuditRow(i) ==
    [txnId |-> i, userId |-> IF i % 2 = 1 THEN <<"u", "1">> ELSE <<"u", "2">>,
     createdAt |-> 1000 + i]

RowCounts == {0, 1, DefaultLimit + 1, MaxRows - 1, MaxRows}

LimitParams ==
    {NoParam} \cup
    {Str(s) : s \in {<<>>, <<"0">>, <<"5">>, <<"1", "0", "0">>, <<"1", "5", "0">>,
                     <<"-", "1">>, <<"-", "1", "0", "1">>, <<"-", "1", "0", "2">>,
                     <<"a", "b", "c">>, <<"1", ".", "5">>}}

UserParams == {NoParam, Str(<<>>), Str(<<"u", "1">>), Str(<<"u", "3">>)}

InitQuery ==
    /\ NoNodes
    /\ NoClient
    /\ \E limit \in LimitParams, userId \in UserParams :
         posts = <<[query |-> [limit |-> limit, userId |-> userId], answer |-> Null]>>
    /\ \E n \in RowCounts : auditLog = [i \in 1..n |-> AuditRow(i)]
    /\ webhookDelivery = <<>>
    /\ checked = Null
    /\ store = [k \in {WalletKey(U1)} |-> Null]
    /\ calls = <<>>
    /\ buffer = NewProcessedTxnBuffer(DefaultSize)
    /\ balance = 0
    /\ result = Null
    /\ session = attachProfile(PROFILE_TEMPLATE)
    /\ luaResult = Null
    /\ storeResult = Null
    /\ lastCmd = Null
    /\ insertLog = <<>>
    /\ ticks = 0
    /\ startEntry = Null

\* the handler answers the request; whether the database client lets a take
\* of NaN pass as "no take" is left open
Get ==
    /\ posts[1].answer = Null
    /\ \E lenient \in BOOLEAN :
         posts' = [posts EXCEPT ![1].answer =
                      getLogTransactions(auditLog, posts[1].query, lenient)]
    /\ UNCHANGED <<buffer, balance, result, session, luaResult, store, storeResult, calls,
                   lastCmd, insertLog, ticks, startEntry, webhookDelivery, auditLog, checked>>
    /\ UNCHANGED nodeVars
    /\ UNCHANGED clientVars

NextQuery == Get

SpecQuery == InitQuery /\ [][NextQuery]_vars

QueryAnswered == posts[1].answer # Null
QueryRows == IF posts[1].answer.status = 200 THEN posts[1].answer.body ELSE <<>>

NewestFirst(rows) ==
    \A i \in 1..(Len(rows) - 1) : rows[i].createdAt > rows[i + 1].createdAt

\* limit is absent or converts to an integer
IntegerLimit == getLogTransactions_limit(posts[1].query.limit).kind = "int"

\* C32: for every value of limit (here: absent, 0, negative, above 100, or
\* any other that converts to an integer) GET /log/transactions answers with
\* at most 100 audit rows, 20 at most when limit is absent, newest first by
\* createdAt and restricted to userId when one is given.
AuditQueryBound ==
    (QueryAnswered /\ IntegerLimit) =>
       /\ Len(QueryRows) <= QueryCap
       /\ posts[1].query.limit.kind = "absent" => Len(QueryRows) <= DefaultLimit
       /\ NewestFirst(QueryRows)
       /\ getLogTransactions_userId(posts[1].query.userId).kind # "absent" =>
             \A i \in 1..Len(QueryRows) :
                QueryRows[i].userId = posts[1].query.userId.chars

\* the same for a limit that is absent or a decimal integer >= 0
AuditQueryBoundNatural ==
    (QueryAnswered /\ IntegerLimit
       /\ getLogTransactions_limit(posts[1].query.limit).value >= 0) =>
       /\ posts[1].answer.status = 200
       /\ Len(QueryRows) <= QueryCap
       /\ posts[1].query.limit.kind = "absent" => Len(QueryRows) <= DefaultLimit
       /\ NewestFirst(QueryRows)
       /\ getLogTransactions_userId(posts[1].query.userId).kind # "absent" =>
             \A i \in 1..Len(QueryRows) :
                QueryRows[i].userId = posts[1].query.userId.chars

\* a query answered with more than 100 rows
OverCap == QueryAnswered /\ Len(QueryRows) > QueryCap

\* a query with a negative limit answered with more than 100 rows
OverCapNegative ==
    /\ OverCap /\ IntegerLimit
    /\ getLogTransactions_limit(posts[1].query.limit).value < 0

-----------------------------------------------------------------------------
(* Driver 15: the game script's RingBuffer and the TypeScript
   ProcessedTxnBuffer side by side: built with the same capacity from the
   same seed list, then fed the same records. *)

\* the record of a command applied on balance 0 at the start of the clock
RingRecord(cmd) ==
    RecordOf(0, [txnId |-> cmd.txnId, delta |-> cmd.delta, actor |-> cmd.actor,
                 source |-> cmd.source, reason |-> cmd.reason,
                 timestamp |-> TimestampOf(cmd)], Clock(0))

RingRecords == {RingRecord(cmd) : cmd \in Commands}

\* seed lists: records of credits, txnIds possibly repeated, up to one more
\* than the largest capacity
SeedRecords == {RingRecord(Command(t, U1, 1, "admin#1", "discord", NoReason)) : t \in TxnIds}
SeedLists == UNION {[1..n -> SeedRecords] : n \in 0..(MaxSize + 1)}

InitRings ==
    /\ NoNodes
    /\ NoClient
    /\ NoApi
    /\ \E size \in 1..MaxSize, seed \in SeedLists :
         /\ buffer  = RecordAll(NewProcessedTxnBuffer(size), seed)
         /\ session = [profile |-> PROFILE_TEMPLATE,
                       ring    |-> RingBuffer_new(size, seed)]
    /\ balance = 0
    /\ result = Null
    /\ luaResult = Null
    /\ store = [k \in {WalletKey(U1)} |-> Null]
    /\ storeResult = Null
    /\ calls = <<>>
    /\ lastCmd = Null
    /\ insertLog = <<>>
    /\ ticks = 0
    /\ startEntry = Null

\* buffer.record(rec) and ring:push(rec) with the same record
PushBoth ==
    /\ ticks < MaxOps
    /\ \E rec \in RingRecords :
         LET t == record(buffer, rec)
             l == RingBuffer_push(session.ring, rec)
         IN  /\ buffer' = t.self
             /\ result' = [inserted |-> t.inserted, record |-> t.record]
             /\ session' = [session EXCEPT !.ring = l.self]
             /\ luaResult' = [inserted |-> l.inserted, record |-> l.record]
    /\ ticks' = ticks + 1
    /\ UNCHANGED <<balance, store, storeResult, calls, lastCmd, insertLog, startEntry>>
    /\ UNCHANGED nodeVars
    /\ UNCHANGED clientVars
    /\ UNCHANGED apiVars

NextRings == PushBoth

SpecRings == InitRings /\ [][NextRings]_vars

\* C33: run side by side on the same sequence of records from the same seed
\* list, RingBuffer (push / list) and ProcessedTxnBuffer (record /
\* listNewestFirst reversed) return the same inserted flag and the same
\* stored record at every step and hold the same records in the same
\* oldest-to-newest order.
RingsAgree ==
    /\ result = luaResult
    /\ Reverse(listNewestFirst(buffer)) = RingBuffer_list(session.ring)
    /\ DOMAIN buffer.lookup = DOMAIN session.ring.lookup
    /\ \A t \in DOMAIN buffer.lookup : get(buffer, t) = session.ring.lookup[t]

\* more records than the capacity were pushed, both rings are full, and the
\* last record was refused by both as a duplicate of one they hold
RingsAgreeWitness ==
    /\ ticks > buffer.size
    /\ Len(RingBuffer_list(session.ring)) = session.ring.size
    /\ result # Null /\ ~result.inserted /\ ~luaResult.inserted
    /\ result.record = luaResult.record

-----------------------------------------------------------------------------
(* The ring rebuilt from the persisted list (driver 2, capacity 64) *)

\* the persisted processed list of U1
StoredList == IF StoredProfile(U1) = Null THEN <<>> ELSE StoredProfile(U1).processed

NoRepeats(list) ==
    \A i, j \in 1..Len(list) : i # j => list[i].txnId # list[j].txnId

\* lines 542-545 and 563-566: the ring built by recording the list's entries
\* in order, persisted as listNewestFirst() reversed
Rebuilt(list) == Reverse(listNewestFirst(RecordAll(NewProcessedTxnBuffer(DefaultSize), list)))

\* the persisted list is one the claim covers
Persistable == Len(StoredList) <= DefaultSize /\ NoRepeats(StoredList)

RoundTripState == Persistable => Rebuilt(StoredList) = StoredList

RoundTripStep ==
    (Persistable /\ store' # store) =>
       /\ storeResult'.record.txnId = lastCmd'.txnId
       /\ StoredList' = Append(IF Len(StoredList) = DefaultSize
                               THEN Tail(StoredList) ELSE StoredList,
                               storeResult'.record)

\* C34: for any persisted processed list of at most 64 records with
\* distinct txnIds, rebuilding a ring by recording its entries in order and
\* persisting listNewestFirst() reversed gives back the same list, so a
\* successful write of a new txnId stores the previous list (minus its
\* oldest entry when it was full) followed by the new record.
RingRoundTrip == [](RoundTripState) /\ [][RoundTripStep]_vars

\* a full list of 64 records was read and written back without its oldest
\* record and with the new one at the end
RingRoundTripWitness ==
    /\ startEntry = Null
    /\ Len(StoredList) = DefaultSize
    /\ StoredList[1].txnId = 2
    /\ StoredList[DefaultSize].txnId = DefaultSize + 1

-----------------------------------------------------------------------------
(* The order of a command's effects on a node (driver 4) *)

\* task t's handler moves in this step
Moves(t) == threads'[t] # threads[t]

\* the session of t's node holds the mutation of t's record after the step
Mutated(t) ==
    LET e   == ActiveSessions'[t.node][lastCmd.userId]
        rec == threads'[t].record
    IN  /\ e # Null
        /\ rec.txnId = lastCmd.txnId
        /\ e.profile.balance = rec.balanceAfter
        /\ Len(e.profile.processed) > 0
        /\ e.profile.processed[Len(e.profile.processed)] = rec

EffectsStep(t) ==
    /\ (threads'[t].pc = "publish" /\ threads[t].pc # "publish") =>
          (Len(insertLog') = Len(insertLog) + 1 /\ Mutated(t))
    /\ (threads[t].pc = "publish" /\ Moves(t)) =>
          (threads'[t].pc = "log" /\ threads'[t].record = threads[t].record)
    /\ (threads'[t].pc = "log" /\ threads[t].pc # "log") => threads[t].pc = "publish"
    /\ (threads[t].pc = "log" /\ Moves(t)) => threads'[t].pc = "done"

HoldsProfile(n, userId) == profiles[ProfileKey(userId)].owner = n

\* node n's registry has an entry for the user
Registered(n, userId) == ActiveSessions[n][userId] # Null

\* C36: on every node and in every reachable state, ActiveSessions[userId]
\* is present exactly when the node holds an unreleased profile of the user,
\* and the entry refers to that profile, never to a released one.
SessionRegistryConsistent ==
    \A n \in Nodes :
        /\ Registered(n, U1) <=> HoldsProfile(n, U1)
        /\ Registered(n, U1) => ActiveSessions[n][U1].active

\* an entry without the lock, and the lock without an entry
EntryWithoutProfile == \E n \in Nodes : Registered(n, U1) /\ ~HoldsProfile(n, U1)

ProfileWithoutEntry == \E n \in Nodes : HoldsProfile(n, U1) /\ ~Registered(n, U1)
\* the user's session on node m ended with its release listener's kick, and
\* the session attached afterwards on node n is registered there
SessionRegistryWitness ==
    \E n \in Nodes : \E m \in Nodes \ {n} :
        /\ Registered(n, U1) /\ HoldsProfile(n, U1)
        /\ ~Registered(m, U1) /\ players[m] = "leaving"
        /\ \E t \in JoinTasks : t.node = m /\ threads[t].record # Null

(* ---------------------------------------------------------------------
   Driver 16: POST /log/transactions with statements that fail inside
   the database transaction (apps/api/src/index.ts lines 102-131)
   --------------------------------------------------------------------- *)

\* where a database error strikes a handler's transaction
Faults == {"none", "create", "upsert"}

\* a transaction whose writes stay when its callback throws
prisma_transaction_noRollback(before, run) ==
    [webhookDelivery |-> run.webhookDelivery, auditLog |-> run.auditLog]

\* line 102, prisma.$transaction(callback): the tables after it; the writes
\* of a callback that threw are rolled back
prisma_transaction(before, run) ==
    IF run.threw THEN before
    ELSE [webhookDelivery |-> run.webhookDelivery, auditLog |-> run.auditLog]

(* lines 103-130, the callback, up to its return or its throw: a create
   that fails on a key that is not stored finds no existing record and
   throws the conflict error (lines 111-115); an upsert that fails throws
   after the delivery record was created. *)
postLogTransactions_callback(deliveries, audit, c, fault) ==
    LET existing == SelectSeq(deliveries, LAMBDA d : d.key = c.idempotencyKey)
        t == postLogTransactions_transaction(deliveries, audit, c)
    IN  IF existing = <<>> /\ fault = "create"
        THEN [webhookDelivery |-> deliveries, auditLog |-> audit,
              threw |-> TRUE, response |-> InternalError]
        ELSE IF existing = <<>> /\ fault = "upsert"
        THEN [webhookDelivery |-> t.webhookDelivery, auditLog |-> audit,
              threw |-> TRUE, response |-> InternalError]
        ELSE [webhookDelivery |-> t.webhookDelivery, auditLog |-> t.auditLog,
              threw |-> t.response = InternalError, response |-> t.response]

InitIngest == InitApi

\* the transaction of a handler runs, commits or is rolled back, and the
\* handler or the error handler answers (lines 102-133, 151-155)
Ingest(r) ==
    /\ posts[r].pc = "tx"
    /\ \E fault \in Faults :
         LET before == [webhookDelivery |-> webhookDelivery, auditLog |-> auditLog]
             run    == postLogTransactions_callback(webhookDelivery, auditLog,
                                                    posts[r].checks, fault)
             after  == prisma_transaction(before, run)
         IN  /\ webhookDelivery' = after.webhookDelivery
             /\ auditLog' = after.auditLog
             /\ posts' = [posts EXCEPT ![r].pc = "done", ![r].response = run.response,
                                       ![r].answered = Answered + 1]
    /\ ApiLeaves

NextIngest ==
    \/ \E r \in 1..MaxPosts : Post(r)
    \/ \E r \in 1..MaxPosts : Ingest(r)

SpecIngest == InitIngest /\ [][NextIngest]_vars

\* the delivery record has an audit row for the txnId of the payload whose
\* hash it stores
HasAuditRow(d) ==
    \A p \in AuditPayloads :
        hashPayload(p) = d.payloadHash => AuditRowsOf(p.members.txnId) # <<>>

DeliveriesHaveAuditRows ==
    \A i \in 1..Len(webhookDelivery) :
        /\ \E p \in AuditPayloads : hashPayload(p) = webhookDelivery[i].payloadHash
        /\ HasAuditRow(webhookDelivery[i])

\* the handler of slot r is answered in this step, and not with 200
Rejected(r) ==
    posts[r].pc # "done" /\ posts'[r].pc = "done" /\ posts'[r].response.status # 200

\* C37: after any sequence of POST /log/transactions requests, including
\* ones that fail inside the database transaction, every stored delivery
\* record has an audit row for the txnId of the payload it was created
\* with, and a request that is rejected (400, 401, key conflict, failed
\* transaction) leaves both tables unchanged.
IngestionAtomic ==
    /\ []DeliveriesHaveAuditRows
    /\ [][\A r \in 1..MaxPosts :
             Rejected(r) => UNCHANGED <<webhookDelivery, auditLog>>]_vars

\* a transaction failed after its create, a conflicting request was
\* refused, and a delivery is stored with its audit row
IngestionAtomicWitness ==
    /\ Len(webhookDelivery) = 1 /\ Len(auditLog) = 1
    /\ \E a, b \in 1..MaxPosts :
         /\ a # b /\ Accepted(a) /\ Accepted(b) /\ Done(a) /\ Done(b)
         /\ posts[a].response = InternalError
         /\ posts[b].response.status = 200
         /\ posts[a].answered < posts[b].answered
====
